---- MODULE Spec2Model ----
(***************************************************************************)
(* The round engine of the crash game (src/server/game-logic.js, class     *)
(* GameEngine) as a state machine.                                         *)
(*                                                                         *)
(* Units.  A multiplier is an integer number of 1e-5 (1.00x = 100000), so  *)
(* that toFixed(4) and toFixed(2) round.  Money is an integer; a payout    *)
(* bet * multiplier is therefore in 1e-5 of the money unit.  Time is in    *)
(* milliseconds; the clock moves in quanta of 500 ms and counts from the   *)
(* last startGame (the only instants the engine compares are relative to   *)
(* startTime).  Math.random() is an integer r in 0..9999 standing for      *)
(* r/10000.  A probability is an integer number of 1e-9.                   *)
(* null is the empty sequence <<>> and a present value v is <<v>>.         *)
(***************************************************************************)
EXTENDS Integers, Sequences, FiniteSets, TLC

VARIABLES
    state,                    \* this.state
    multiplier,               \* this.multiplier
    startTime,                \* this.startTime
    gameId,                   \* this.gameId
    history,                  \* this.history
    activePlayers,            \* this.activePlayers (Map, in insertion order)
    cashedOutPlayers,         \* this.cashedOutPlayers (Set)
    gameLoopInterval,         \* this.gameLoopInterval (handle)
    stateTimeout,             \* this.stateTimeout (handle)
    stats,                    \* this.stats
    lastPredictionBroadcast,  \* this._lastPredictionBroadcast
    timeouts,                 \* the runtime's pending setTimeout callbacks
    intervals,                \* the runtime's running setInterval callbacks
    clock,                    \* quanta of 500 ms since the last startGame
    idle,                     \* quanta since the last tick or startGame
    emitted,                  \* the events emitted by the last step, in order
    starts,                   \* number of start() calls so far
    tally,                    \* per held wager: payouts and flights seen
    closing,                  \* while CRASHED: what ended the round, and the
                              \* tallies of the wagers the crash cleared
    playerManager             \* the server's PlayerManager: players, stats

vars == <<state, multiplier, startTime, gameId, history, activePlayers,
          cashedOutPlayers, gameLoopInterval, stateTimeout, stats,
          lastPredictionBroadcast, timeouts, intervals, clock, idle, emitted,
          starts, tally, closing, playerManager>>

---------------------------------------------------------------------------
(* Bounds of the exploration *)

MaxRounds == 1
MaxClock == 3
MaxIdle == 1
MaxWagered == 3
MaxStarts == 2
\* The long-flight specifications let time pass FlightStride quanta at a
\* time, up to MaxFlight quanta: past the maximum game time.
FlightStride == 10
MaxFlight == 190
\* The history specification explores HistoryRounds rounds, of which at most
\* MaxTicked at a time have an entry other than 1.00 in the history.
HistoryRounds == 21
MaxTicked == 2
\* The server specification explores bets up to a total of MaxStaked
\* accepted by the engine.
MaxStaked == 2400

(* Inputs *)

Players == {"p1", "p2"}
Amounts == {10, 20}
\* Each player stakes one amount of Amounts.
Stakes(p) == IF p = "p1" THEN {10} ELSE {20}
Null == <<>>
Thresholds == {Null, <<120000>>}
RandomDraws == {0, 10, 9999}
Reasons == {"admin_override"}
\* The ids of the sockets, in the order in which they connect.
SocketIds == <<"p1", "p2">>
\* data.amount and data.autoCashOut of a place_bet message.
RequestedAmounts == {Null, <<0>>, <<400>>, <<2000>>}
BetData == [amount : RequestedAmounts,
            autoCashOut : {Null, <<100000>>, <<120000>>}]

---------------------------------------------------------------------------
(* GAME_STATES and the configuration set by the constructor *)

WAITING == "waiting"
STARTING == "starting"
FLYING == "flying"
CRASHED == "crashed"

waitTimeMin == 3000
waitTimeMax == 7000
countdownTime == 3000
predictionInterval == 1000
maxGameTime == 90000
historySize == 20
minMultiplier == 100000
capMultiplier == 25000000

Min(a, b) == IF a < b THEN a ELSE b
Max(a, b) == IF a > b THEN a ELSE b

\* A JavaScript condition on a number-or-null: null and 0 are falsy.
Truthy(x) == x # Null /\ x[1] # 0

\* Date.now(): the epoch is placed 1000 ms before the last startGame.
Now(g) == 1000 + g.clock * 500

---------------------------------------------------------------------------
(* The Map this.activePlayers: a sequence of entries in insertion order *)

MapHas(m, k) == \E i \in 1..Len(m) : m[i].playerId = k
MapIndex(m, k) == CHOOSE i \in 1..Len(m) : m[i].playerId = k
MapGet(m, k) == m[MapIndex(m, k)]
MapSet(m, k, v) ==
    IF MapHas(m, k) THEN [m EXCEPT ![MapIndex(m, k)] = v] ELSE Append(m, v)
MapDelete(m, k) == SelectSeq(m, LAMBDA e : e.playerId # k)
MapKeys(m) == {m[i].playerId : i \in 1..Len(m)}

---------------------------------------------------------------------------
(* The runtime: timers and the event emitter *)

TimerIds == 1..(2 * MaxStarts + 4)

UsedIds(g) ==
    {t.id : t \in g.timeouts} \cup g.intervals
        \cup {h[1] : h \in {g.stateTimeout, g.gameLoopInterval} \ {Null}}

FreshId(g) == CHOOSE n \in TimerIds :
    n \notin UsedIds(g) /\ \A m \in 1..(n - 1) : m \in UsedIds(g)

emit(g, name, payload) ==
    [g EXCEPT !.emitted = Append(@, [event |-> name, payload |-> payload])]

\* this.stateTimeout = setTimeout(cb, ...)
setStateTimeout(g, cb) ==
    LET id == FreshId(g)
    IN [g EXCEPT !.timeouts = @ \cup {[id |-> id, cb |-> cb]},
                 !.stateTimeout = <<id>>]

clearTimers(g) ==
    LET g1 == IF g.gameLoopInterval # Null
              THEN [g EXCEPT !.intervals = @ \ {g.gameLoopInterval[1]},
                             !.gameLoopInterval = Null]
              ELSE g
    IN IF g1.stateTimeout # Null
       THEN [g1 EXCEPT !.timeouts = {t \in @ : t.id # g1.stateTimeout[1]},
                       !.stateTimeout = Null]
       ELSE g1

---------------------------------------------------------------------------
(* Pure functions of the engine *)

\* round(exp(0.1 * k) * 1e5) for k = 0..56: exp(rate * t) at t = k * 500 ms.
ExpTable ==
    << 100000, 110517, 122140, 134986, 149182, 164872, 182212, 201375,
       222554, 245960, 271828, 300417, 332012, 366930, 405520, 448169,
       495303, 547395, 604965, 668589, 738906, 816617, 902501, 997418,
       1102318, 1218249, 1346374, 1487973, 1644465, 1817415, 2008554, 2219795,
       2453253, 2711264, 2996410, 3311545, 3659823, 4044730, 4470118, 4940245,
       5459815, 6034029, 6668633, 7369979, 8145087, 9001713, 9948432, 10994717,
       12151042, 13428978, 14841316, 16402191, 18127224, 20033681, 22140642, 24469193,
       27042641 >>

\* Math.exp(rate * timeInSeconds) for rate = 0.2, the time given in ms.
\* Past the table's end the value is above capMultiplier, as is the last entry.
ExpRate(ms) ==
    IF ms < 0 THEN 0
    ELSE IF ms \div 500 < Len(ExpTable) THEN ExpTable[ms \div 500 + 1]
    ELSE ExpTable[Len(ExpTable)]

\* As calculateMultiplier, the value wrapping round at capMultiplier instead
\* of staying there.
calculateMultiplier_Wrap(ms) ==
    Max(ExpRate(ms) % capMultiplier, minMultiplier)

\* As calculateMultiplier, without the cap.
calculateMultiplier_NoCap(ms) ==
    Max(ExpRate(ms), minMultiplier)

calculateMultiplier(ms) ==
    Min(Max(ExpRate(ms), minMultiplier), capMultiplier)

\* As crashChance, without the upper limit of 8%.
crashChance_NoLimit(elapsedMs, mult) ==
    LET base == 800000
        late == IF elapsedMs > 30000 THEN (elapsedMs - 30000) * 600 ELSE 0
        high == IF mult > 500000 THEN (mult - 500000) * 15 ELSE 0
    IN base + late + high

\* The per-tick crash probability of shouldCrash, in 1e-9.
crashChance(elapsedMs, mult) ==
    LET base == 800000
        late == IF elapsedMs > 30000 THEN (elapsedMs - 30000) * 600 ELSE 0
        high == IF mult > 500000 THEN (mult - 500000) * 15 ELSE 0
    IN Min(base + late + high, 80000000)

shouldCrash(g, mult, r) ==
    LET elapsedMs == IF g.startTime # Null THEN Now(g) - g.startTime[1] ELSE 0
    IN r * 100000 < crashChance(elapsedMs, mult)

\* Number(x.toFixed(4)) and Number(x.toFixed(2)) of a multiplier
toFixed4(m) == ((m + 5) \div 10) * 10
toFixed2(m) == ((m + 500) \div 1000) * 1000

getRandomWaitTime(r) ==
    (r * (waitTimeMax - waitTimeMin + 1)) \div 10000 + waitTimeMin

buildMultiplierPayload(g, elapsed, timestamp) ==
    [state |-> g.state,
     multiplier |-> toFixed4(g.multiplier),
     displayMultiplier |-> toFixed2(g.multiplier),
     time |-> elapsed,
     timestamp |-> timestamp,
     growthRate |-> 20000]

---------------------------------------------------------------------------
(* The engine's methods.  Each takes the engine (with the runtime) as the  *)
(* record g and yields the engine after the call; a method that returns a  *)
(* value yields [g |-> engine after the call, ret |-> the value].          *)

scheduleNextGame(g, r) ==
    LET waitTime == getRandomWaitTime(r)
        g1 == [g EXCEPT !.state = WAITING]
        g2 == emit(g1, "game_state_changed",
                   [state |-> g1.state, nextGameIn |-> waitTime])
    IN setStateTimeout(g2, "startCountdown")

start(g, r) == scheduleNextGame(g, r)

\* As stop, clearing the interval only: a pending state timer stays.
stop_KeepTimeout(g) ==
    LET g1 == IF g.gameLoopInterval # Null
              THEN [g EXCEPT !.intervals = @ \ {g.gameLoopInterval[1]},
                             !.gameLoopInterval = Null]
              ELSE g
    IN [g1 EXCEPT !.state = WAITING]

stop(g) == [clearTimers(g) EXCEPT !.state = WAITING]

\* As startCountdown, without the game_state_changed event.
startCountdown_NoEvent(g) ==
    LET g1 == [g EXCEPT !.state = STARTING, !.cashedOutPlayers = {}]
    IN setStateTimeout(g1, "startGame")

startCountdown(g) ==
    LET g1 == [g EXCEPT !.state = STARTING, !.cashedOutPlayers = {}]
        g2 == emit(g1, "game_state_changed",
                   [state |-> g1.state, countdown |-> countdownTime])
    IN setStateTimeout(g2, "startGame")

startGameLoop(g) ==
    LET id == FreshId(g)
    IN [g EXCEPT !.intervals = @ \cup {id}, !.gameLoopInterval = <<id>>]

\* As startGame, the round id being left as it is.
startGame_SameId(g) ==
    LET g1 == [g EXCEPT !.state = FLYING,
                        !.multiplier = 100000,
                        !.startTime = <<Now(g)>>,
                        !.cashedOutPlayers = {},
                        !.lastPredictionBroadcast = 0]
        g2 == emit(g1, "game_state_changed",
                   buildMultiplierPayload(g1, 0, Now(g1)))
    IN startGameLoop(g2)

\* As startGame, the multiplier being left where the last round ended.
startGame_KeepMultiplier(g) ==
    LET g1 == [g EXCEPT !.gameId = @ + 1,
                        !.state = FLYING,
                        !.startTime = <<Now(g)>>,
                        !.cashedOutPlayers = {},
                        !.lastPredictionBroadcast = 0]
        g2 == emit(g1, "game_state_changed",
                   buildMultiplierPayload(g1, 0, Now(g1)))
    IN startGameLoop(g2)

startGame(g) ==
    LET g1 == [g EXCEPT !.gameId = @ + 1,
                        !.state = FLYING,
                        !.multiplier = 100000,
                        !.startTime = <<Now(g)>>,
                        !.cashedOutPlayers = {},
                        !.lastPredictionBroadcast = 0]
        g2 == emit(g1, "game_state_changed",
                   buildMultiplierPayload(g1, 0, Now(g1)))
    IN startGameLoop(g2)

\* As performAutoCashOut, without adding the player to cashedOutPlayers.
performAutoCashOut_NoMark(g, playerId) ==
    LET playerData == MapGet(g.activePlayers, playerId)
        winAmount == playerData.bet * g.multiplier
        g1 == [g EXCEPT
                 !.activePlayers =
                     MapSet(@, playerId, [playerData EXCEPT !.hasWon = TRUE]),
                 !.stats.totalPayouts = @ + winAmount]
    IN emit(g1, "player_auto_cashed_out",
            [playerId |-> playerId,
             multiplier |-> g1.multiplier,
             winAmount |-> winAmount,
             betAmount |-> playerData.bet])

\* As performAutoCashOut, the payout not being added to totalPayouts.
performAutoCashOut_NoCount(g, playerId) ==
    LET playerData == MapGet(g.activePlayers, playerId)
        winAmount == playerData.bet * g.multiplier
        g1 == [g EXCEPT
                 !.cashedOutPlayers = @ \cup {playerId},
                 !.activePlayers =
                     MapSet(@, playerId, [playerData EXCEPT !.hasWon = TRUE])]
    IN emit(g1, "player_auto_cashed_out",
            [playerId |-> playerId,
             multiplier |-> g1.multiplier,
             winAmount |-> winAmount,
             betAmount |-> playerData.bet])

performAutoCashOut(g, playerId) ==
    LET playerData == MapGet(g.activePlayers, playerId)
        winAmount == playerData.bet * g.multiplier
        g1 == [g EXCEPT
                 !.cashedOutPlayers = @ \cup {playerId},
                 !.activePlayers =
                     MapSet(@, playerId, [playerData EXCEPT !.hasWon = TRUE]),
                 !.stats.totalPayouts = @ + winAmount]
    IN emit(g1, "player_auto_cashed_out",
            [playerId |-> playerId,
             multiplier |-> g1.multiplier,
             winAmount |-> winAmount,
             betAmount |-> playerData.bet])

\* As checkAutoCashOutsFrom, leaving the loop after the first auto-cash-out.
RECURSIVE checkAutoCashOutsFrom_Break(_, _)
checkAutoCashOutsFrom_Break(g, i) ==
    IF i > Len(g.activePlayers) THEN g
    ELSE LET playerData == g.activePlayers[i]
             playerId == playerData.playerId
         IN IF /\ Truthy(playerData.autoCashOut)
               /\ playerId \notin g.cashedOutPlayers
               /\ g.multiplier >= playerData.autoCashOut[1]
            THEN performAutoCashOut(g, playerId)
            ELSE checkAutoCashOutsFrom_Break(g, i + 1)

\* As checkAutoCashOutsFrom, without comparing the multiplier with the
\* threshold.
RECURSIVE checkAutoCashOutsFrom_NoThreshold(_, _)
checkAutoCashOutsFrom_NoThreshold(g, i) ==
    IF i > Len(g.activePlayers) THEN g
    ELSE LET playerData == g.activePlayers[i]
             playerId == playerData.playerId
         IN IF /\ Truthy(playerData.autoCashOut)
               /\ playerId \notin g.cashedOutPlayers
            THEN checkAutoCashOutsFrom_NoThreshold(
                     performAutoCashOut(g, playerId), i + 1)
            ELSE checkAutoCashOutsFrom_NoThreshold(g, i + 1)

RECURSIVE checkAutoCashOutsFrom(_, _)
\* The for-of loop of checkAutoCashOuts from the i-th entry of the Map on.
checkAutoCashOutsFrom(g, i) ==
    IF i > Len(g.activePlayers) THEN g
    ELSE LET playerData == g.activePlayers[i]
             playerId == playerData.playerId
         IN IF /\ Truthy(playerData.autoCashOut)
               /\ playerId \notin g.cashedOutPlayers
               /\ g.multiplier >= playerData.autoCashOut[1]
            THEN checkAutoCashOutsFrom(performAutoCashOut(g, playerId), i + 1)
            ELSE checkAutoCashOutsFrom(g, i + 1)

checkAutoCashOuts(g) == checkAutoCashOutsFrom(g, 1)

\* As finalizeBets, listing every participant among the losers.
finalizeBets_AllLose(g) ==
    LET record(i) ==
            [playerId |-> g.activePlayers[i].playerId,
             betAmount |-> g.activePlayers[i].bet,
             autoCashOut |-> g.activePlayers[i].autoCashOut,
             hasWon |-> g.activePlayers[i].playerId \in g.cashedOutPlayers]
        participants == [i \in 1..Len(g.activePlayers) |-> record(i)]
        losers == [i \in 1..Len(participants) |->
                      [playerId |-> participants[i].playerId,
                       betAmount |-> participants[i].betAmount]]
    IN [g |-> [g EXCEPT !.activePlayers = <<>>, !.cashedOutPlayers = {}],
        ret |-> [participants |-> participants, losers |-> losers]]

\* As finalizeBets, without clearing cashedOutPlayers.
finalizeBets_NoClear(g) ==
    LET record(i) ==
            [playerId |-> g.activePlayers[i].playerId,
             betAmount |-> g.activePlayers[i].bet,
             autoCashOut |-> g.activePlayers[i].autoCashOut,
             hasWon |-> g.activePlayers[i].playerId \in g.cashedOutPlayers]
        participants == [i \in 1..Len(g.activePlayers) |-> record(i)]
        unsettled == SelectSeq(participants, LAMBDA rec : ~rec.hasWon)
        losers == [i \in 1..Len(unsettled) |->
                      [playerId |-> unsettled[i].playerId,
                       betAmount |-> unsettled[i].betAmount]]
    IN [g |-> [g EXCEPT !.activePlayers = <<>>],
        ret |-> [participants |-> participants, losers |-> losers]]

\* finalizeBets returns the settlement and clears the two collections.
finalizeBets(g) ==
    LET record(i) ==
            [playerId |-> g.activePlayers[i].playerId,
             betAmount |-> g.activePlayers[i].bet,
             autoCashOut |-> g.activePlayers[i].autoCashOut,
             hasWon |-> g.activePlayers[i].playerId \in g.cashedOutPlayers]
        participants == [i \in 1..Len(g.activePlayers) |-> record(i)]
        unsettled == SelectSeq(participants, LAMBDA rec : ~rec.hasWon)
        losers == [i \in 1..Len(unsettled) |->
                      [playerId |-> unsettled[i].playerId,
                       betAmount |-> unsettled[i].betAmount]]
    IN [g |-> [g EXCEPT !.activePlayers = <<>>, !.cashedOutPlayers = {}],
        ret |-> [participants |-> participants, losers |-> losers]]

\* As addToHistory, without dropping the oldest entry.
addToHistory_NoPop(g, mult) ==
    [g EXCEPT !.history = <<toFixed2(mult)>> \o g.history]

addToHistory(g, mult) ==
    LET h == <<toFixed2(mult)>> \o g.history
    IN [g EXCEPT !.history =
            IF Len(h) > historySize THEN SubSeq(h, 1, Len(h) - 1) ELSE h]

RECURSIVE SumSeq(_)
SumSeq(s) == IF s = <<>> THEN 0 ELSE Head(s) + SumSeq(Tail(s))

\* stats.averageMultiplier is the quotient sum / length, kept as the pair
\* <<sum, length>>.
updateAverageMultiplier(g) ==
    IF Len(g.history) > 0
    THEN [g EXCEPT !.stats.averageMultiplier =
                       <<SumSeq(g.history), Len(g.history)>>]
    ELSE g

\* As crashGame, going back to WAITING at once instead of showing CRASHED.
crashGame_SkipCrashed(g, trigger) ==
    LET g1 == [clearTimers(g) EXCEPT !.state = WAITING]
        g2 == IF g1.startTime # Null
              THEN emit(g1, "multiplier_update",
                        buildMultiplierPayload(g1, Now(g1) - g1.startTime[1],
                                               Now(g1)))
              ELSE g1
        g3 == updateAverageMultiplier(
                  [g2 EXCEPT !.stats.totalGames = @ + 1])
        g4 == addToHistory(g3, g3.multiplier)
        fin == finalizeBets(g4)
        g5 == emit(fin.g, "game_state_changed",
                   [state |-> fin.g.state,
                    finalMultiplier |-> fin.g.multiplier])
        g6 == emit(g5, "round_settled",
                   [finalMultiplier |-> g5.multiplier,
                    losers |-> fin.ret.losers,
                    participants |-> fin.ret.participants])
    IN setStateTimeout(g6, "scheduleNextGame")

\* As crashGame, round_settled being emitted before the crashed
\* game_state_changed.
crashGame_SettledFirst(g, trigger) ==
    LET g1 == [clearTimers(g) EXCEPT !.state = CRASHED]
        g2 == IF g1.startTime # Null
              THEN emit(g1, "multiplier_update",
                        buildMultiplierPayload(g1, Now(g1) - g1.startTime[1],
                                               Now(g1)))
              ELSE g1
        g3 == updateAverageMultiplier(
                  [g2 EXCEPT !.stats.totalGames = @ + 1])
        g4 == addToHistory(g3, g3.multiplier)
        fin == finalizeBets(g4)
        g5 == emit(fin.g, "round_settled",
                   [finalMultiplier |-> fin.g.multiplier,
                    losers |-> fin.ret.losers,
                    participants |-> fin.ret.participants])
        g6 == emit(g5, "game_state_changed",
                   [state |-> g5.state,
                    finalMultiplier |-> g5.multiplier])
    IN setStateTimeout(g6, "scheduleNextGame")

\* As crashGame, the round not being counted in totalGames.
crashGame_NoCount(g, trigger) ==
    LET g1 == [clearTimers(g) EXCEPT !.state = CRASHED]
        g2 == IF g1.startTime # Null
              THEN emit(g1, "multiplier_update",
                        buildMultiplierPayload(g1, Now(g1) - g1.startTime[1],
                                               Now(g1)))
              ELSE g1
        g3 == updateAverageMultiplier(g2)
        g4 == addToHistory(g3, g3.multiplier)
        fin == finalizeBets(g4)
        g5 == emit(fin.g, "game_state_changed",
                   [state |-> fin.g.state,
                    finalMultiplier |-> fin.g.multiplier])
        g6 == emit(g5, "round_settled",
                   [finalMultiplier |-> g5.multiplier,
                    losers |-> fin.ret.losers,
                    participants |-> fin.ret.participants])
    IN setStateTimeout(g6, "scheduleNextGame")

\* As crashGame, without clearing the timers: the interval keeps running.
crashGame_KeepTicking(g, trigger) ==
    LET g1 == [g EXCEPT !.state = CRASHED]
        g2 == IF g1.startTime # Null
              THEN emit(g1, "multiplier_update",
                        buildMultiplierPayload(g1, Now(g1) - g1.startTime[1],
                                               Now(g1)))
              ELSE g1
        g3 == updateAverageMultiplier(
                  [g2 EXCEPT !.stats.totalGames = @ + 1])
        g4 == addToHistory(g3, g3.multiplier)
        fin == finalizeBets(g4)
        g5 == emit(fin.g, "game_state_changed",
                   [state |-> fin.g.state,
                    finalMultiplier |-> fin.g.multiplier])
        g6 == emit(g5, "round_settled",
                   [finalMultiplier |-> g5.multiplier,
                    losers |-> fin.ret.losers,
                    participants |-> fin.ret.participants])
    IN setStateTimeout(g6, "scheduleNextGame")

crashGame(g, trigger) ==
    LET g1 == [clearTimers(g) EXCEPT !.state = CRASHED]
        g2 == IF g1.startTime # Null
              THEN emit(g1, "multiplier_update",
                        buildMultiplierPayload(g1, Now(g1) - g1.startTime[1],
                                               Now(g1)))
              ELSE g1
        g3 == updateAverageMultiplier(
                  [g2 EXCEPT !.stats.totalGames = @ + 1])
        g4 == addToHistory(g3, g3.multiplier)
        fin == finalizeBets(g4)
        g5 == emit(fin.g, "game_state_changed",
                   [state |-> fin.g.state,
                    finalMultiplier |-> fin.g.multiplier])
        g6 == emit(g5, "round_settled",
                   [finalMultiplier |-> g5.multiplier,
                    losers |-> fin.ret.losers,
                    participants |-> fin.ret.participants])
    IN setStateTimeout(g6, "scheduleNextGame")

\* As updateGame, without the check of the maximum game time.
updateGame_NoMaxTime(g, r) ==
    IF g.state # FLYING THEN g
    ELSE
    LET now == Now(g)
        elapsed == now - g.startTime[1]
        g1 == [g EXCEPT !.multiplier = calculateMultiplier(elapsed)]
        g2 == IF \/ g1.lastPredictionBroadcast = 0
                 \/ now - g1.lastPredictionBroadcast >= predictionInterval
              THEN LET g1b == [g1 EXCEPT !.lastPredictionBroadcast = now]
                   IN emit(g1b, "multiplier_update",
                           buildMultiplierPayload(g1b, elapsed, now))
              ELSE g1
    IN IF shouldCrash(g2, g2.multiplier, r) THEN crashGame(g2, Null)
       ELSE LET g3 == checkAutoCashOuts(g2)
            IN emit(g3, "game_state_changed",
                    buildMultiplierPayload(g3, elapsed, now))

\* As updateGame, the maximum game time being checked with > instead of >=.
updateGame_LateMaxTime(g, r) ==
    IF g.state # FLYING THEN g
    ELSE
    LET now == Now(g)
        elapsed == now - g.startTime[1]
        g1 == [g EXCEPT !.multiplier = calculateMultiplier(elapsed)]
        g2 == IF \/ g1.lastPredictionBroadcast = 0
                 \/ now - g1.lastPredictionBroadcast >= predictionInterval
              THEN LET g1b == [g1 EXCEPT !.lastPredictionBroadcast = now]
                   IN emit(g1b, "multiplier_update",
                           buildMultiplierPayload(g1b, elapsed, now))
              ELSE g1
    IN IF shouldCrash(g2, g2.multiplier, r) THEN crashGame(g2, Null)
       ELSE IF elapsed > maxGameTime THEN crashGame(g2, Null)
       ELSE LET g3 == checkAutoCashOuts(g2)
            IN emit(g3, "game_state_changed",
                    buildMultiplierPayload(g3, elapsed, now))

\* As updateGame, the auto-cash-outs being checked before the crash decision.
updateGame_AutoFirst(g, r) ==
    IF g.state # FLYING THEN g
    ELSE
    LET now == Now(g)
        elapsed == now - g.startTime[1]
        g1 == [g EXCEPT !.multiplier = calculateMultiplier(elapsed)]
        g2 == IF \/ g1.lastPredictionBroadcast = 0
                 \/ now - g1.lastPredictionBroadcast >= predictionInterval
              THEN LET g1b == [g1 EXCEPT !.lastPredictionBroadcast = now]
                   IN emit(g1b, "multiplier_update",
                           buildMultiplierPayload(g1b, elapsed, now))
              ELSE g1
        g3 == checkAutoCashOuts(g2)
    IN IF shouldCrash(g3, g3.multiplier, r) THEN crashGame(g3, Null)
       ELSE IF elapsed >= maxGameTime THEN crashGame(g3, Null)
       ELSE emit(g3, "game_state_changed",
                 buildMultiplierPayload(g3, elapsed, now))

\* As updateGame, without the throttle: every tick emits a multiplier_update.
updateGame_NoThrottle(g, r) ==
    IF g.state # FLYING THEN g
    ELSE
    LET now == Now(g)
        elapsed == now - g.startTime[1]
        g1 == [g EXCEPT !.multiplier = calculateMultiplier(elapsed)]
        g2 == LET g1b == [g1 EXCEPT !.lastPredictionBroadcast = now]
              IN emit(g1b, "multiplier_update",
                      buildMultiplierPayload(g1b, elapsed, now))
    IN IF shouldCrash(g2, g2.multiplier, r) THEN crashGame(g2, Null)
       ELSE IF elapsed >= maxGameTime THEN crashGame(g2, Null)
       ELSE LET g3 == checkAutoCashOuts(g2)
            IN emit(g3, "game_state_changed",
                    buildMultiplierPayload(g3, elapsed, now))

updateGame(g, r) ==
    IF g.state # FLYING THEN g
    ELSE
    LET now == Now(g)
        elapsed == now - g.startTime[1]
        g1 == [g EXCEPT !.multiplier = calculateMultiplier(elapsed)]
        g2 == IF \/ g1.lastPredictionBroadcast = 0
                 \/ now - g1.lastPredictionBroadcast >= predictionInterval
              THEN LET g1b == [g1 EXCEPT !.lastPredictionBroadcast = now]
                   IN emit(g1b, "multiplier_update",
                           buildMultiplierPayload(g1b, elapsed, now))
              ELSE g1
    IN IF shouldCrash(g2, g2.multiplier, r) THEN crashGame(g2, Null)
       ELSE IF elapsed >= maxGameTime THEN crashGame(g2, Null)
       ELSE LET g3 == checkAutoCashOuts(g2)
            IN emit(g3, "game_state_changed",
                    buildMultiplierPayload(g3, elapsed, now))

\* As forceCrash, without the check of the state.
forceCrash_NoStateCheck(g, reason) ==
    LET g1 == crashGame(g, <<reason>>)
    IN [g |-> g1, ret |-> [success |-> TRUE, multiplier |-> g1.multiplier]]

forceCrash(g, reason) ==
    IF g.state # FLYING
    THEN [g |-> g,
          ret |-> [success |-> FALSE, error |-> "Game is not currently flying"]]
    ELSE LET g1 == crashGame(g, <<reason>>)
         IN [g |-> g1, ret |-> [success |-> TRUE, multiplier |-> g1.multiplier]]

canPlaceBet(g) == g.state = WAITING \/ g.state = STARTING

\* As placeBet, a bet with a threshold below 1.01 being counted in the
\* statistics before it is rejected.
placeBet_CountsRejected(g, playerId, amount, autoCashOut) ==
    IF ~canPlaceBet(g) THEN [g |-> g, ret |-> FALSE]
    ELSE IF Truthy(autoCashOut) /\ autoCashOut[1] < 101000
    THEN [g |-> [g EXCEPT !.stats.totalBets = @ + amount], ret |-> FALSE]
    ELSE [g |-> [g EXCEPT
                   !.activePlayers =
                       MapSet(@, playerId,
                              [playerId |-> playerId, bet |-> amount,
                               autoCashOut |-> autoCashOut, hasWon |-> FALSE]),
                   !.stats.totalBets = @ + amount],
          ret |-> TRUE]

placeBet(g, playerId, amount, autoCashOut) ==
    IF ~canPlaceBet(g) THEN [g |-> g, ret |-> FALSE]
    ELSE IF Truthy(autoCashOut) /\ autoCashOut[1] < 101000
    THEN [g |-> g, ret |-> FALSE]
    ELSE [g |-> [g EXCEPT
                   !.activePlayers =
                       MapSet(@, playerId,
                              [playerId |-> playerId, bet |-> amount,
                               autoCashOut |-> autoCashOut, hasWon |-> FALSE]),
                   !.stats.totalBets = @ + amount],
          ret |-> TRUE]

\* As cashOut, paying the bet at 1.00x instead of the current multiplier.
cashOut_StalePayout(g, playerId) ==
    IF g.state # FLYING
    THEN [g |-> g,
          ret |-> [success |-> FALSE, error |-> "Cannot cash out at this time"]]
    ELSE IF ~MapHas(g.activePlayers, playerId)
    THEN [g |-> g,
          ret |-> [success |-> FALSE, error |-> "No active bet found"]]
    ELSE IF playerId \in g.cashedOutPlayers
    THEN [g |-> g,
          ret |-> [success |-> FALSE, error |-> "Already cashed out"]]
    ELSE LET playerData == MapGet(g.activePlayers, playerId)
             winAmount == playerData.bet * 100000
         IN [g |-> [g EXCEPT
                      !.cashedOutPlayers = @ \cup {playerId},
                      !.activePlayers =
                          MapSet(@, playerId,
                                 [playerData EXCEPT !.hasWon = TRUE]),
                      !.stats.totalPayouts = @ + winAmount],
             ret |-> [success |-> TRUE,
                      multiplier |-> g.multiplier,
                      winAmount |-> winAmount,
                      betAmount |-> playerData.bet]]

\* As cashOut, without the check of cashedOutPlayers.
cashOut_NoSettledCheck(g, playerId) ==
    IF g.state # FLYING
    THEN [g |-> g,
          ret |-> [success |-> FALSE, error |-> "Cannot cash out at this time"]]
    ELSE IF ~MapHas(g.activePlayers, playerId)
    THEN [g |-> g,
          ret |-> [success |-> FALSE, error |-> "No active bet found"]]
    ELSE LET playerData == MapGet(g.activePlayers, playerId)
             winAmount == playerData.bet * g.multiplier
         IN [g |-> [g EXCEPT
                      !.cashedOutPlayers = @ \cup {playerId},
                      !.activePlayers =
                          MapSet(@, playerId,
                                 [playerData EXCEPT !.hasWon = TRUE]),
                      !.stats.totalPayouts = @ + winAmount],
             ret |-> [success |-> TRUE,
                      multiplier |-> g.multiplier,
                      winAmount |-> winAmount,
                      betAmount |-> playerData.bet]]

\* As cashOut, without the check of the state.
cashOut_NoStateCheck(g, playerId) ==
    IF ~MapHas(g.activePlayers, playerId)
    THEN [g |-> g,
          ret |-> [success |-> FALSE, error |-> "No active bet found"]]
    ELSE IF playerId \in g.cashedOutPlayers
    THEN [g |-> g,
          ret |-> [success |-> FALSE, error |-> "Already cashed out"]]
    ELSE LET playerData == MapGet(g.activePlayers, playerId)
             winAmount == playerData.bet * g.multiplier
         IN [g |-> [g EXCEPT
                      !.cashedOutPlayers = @ \cup {playerId},
                      !.activePlayers =
                          MapSet(@, playerId,
                                 [playerData EXCEPT !.hasWon = TRUE]),
                      !.stats.totalPayouts = @ + winAmount],
             ret |-> [success |-> TRUE,
                      multiplier |-> g.multiplier,
                      winAmount |-> winAmount,
                      betAmount |-> playerData.bet]]

cashOut(g, playerId) ==
    IF g.state # FLYING
    THEN [g |-> g,
          ret |-> [success |-> FALSE, error |-> "Cannot cash out at this time"]]
    ELSE IF ~MapHas(g.activePlayers, playerId)
    THEN [g |-> g,
          ret |-> [success |-> FALSE, error |-> "No active bet found"]]
    ELSE IF playerId \in g.cashedOutPlayers
    THEN [g |-> g,
          ret |-> [success |-> FALSE, error |-> "Already cashed out"]]
    ELSE LET playerData == MapGet(g.activePlayers, playerId)
             winAmount == playerData.bet * g.multiplier
         IN [g |-> [g EXCEPT
                      !.cashedOutPlayers = @ \cup {playerId},
                      !.activePlayers =
                          MapSet(@, playerId,
                                 [playerData EXCEPT !.hasWon = TRUE]),
                      !.stats.totalPayouts = @ + winAmount],
             ret |-> [success |-> TRUE,
                      multiplier |-> g.multiplier,
                      winAmount |-> winAmount,
                      betAmount |-> playerData.bet]]

\* As removePlayer, leaving the player in cashedOutPlayers.
removePlayer_KeepMarker(g, playerId) ==
    [g EXCEPT !.activePlayers = MapDelete(@, playerId)]

removePlayer(g, playerId) ==
    [g EXCEPT !.activePlayers = MapDelete(@, playerId),
              !.cashedOutPlayers = @ \ {playerId}]

---------------------------------------------------------------------------
(* A subscriber that calls a command from inside an event.  EventEmitter's  *)
(* emit runs the listeners before it returns, so the command runs in the    *)
(* middle of the method that emits.  A subscriber sub listens to the events *)
(* named sub.on and calls the command sub.cmd on those of a flight: the     *)
(* payload shows the state FLYING, or is an auto-cash-out.  The events of   *)
(* crashGame show CRASHED, so crashGame runs as it does without subscriber. *)

SubscriberCommands ==
    {[op |-> "forceCrash"]}
        \cup {[op |-> "cashOut", playerId |-> p] : p \in Players}
        \cup {[op |-> "removePlayer", playerId |-> p] : p \in Players}

Subscribers ==
    [on : {"multiplier_update", "player_auto_cashed_out",
           "game_state_changed"},
     cmd : SubscriberCommands]

\* The command of the subscriber, called on engine g.
callCommand(g, cmd) ==
    IF cmd.op = "forceCrash" THEN forceCrash(g, "subscriber").g
    ELSE IF cmd.op = "cashOut" THEN cashOut(g, cmd.playerId).g
    ELSE removePlayer(g, cmd.playerId)

\* The subscriber's listener runs on the event.
Listens(sub, name, payload) ==
    /\ sub.on = name
    /\ "state" \in DOMAIN payload => payload.state = FLYING

\* this.emit(name, payload) with the subscriber listening.
emitTo(sub, g, name, payload) ==
    IF Listens(sub, name, payload)
    THEN callCommand(emit(g, name, payload), sub.cmd)
    ELSE emit(g, name, payload)

\* performAutoCashOut(playerId, playerData), its event reaching the
\* subscriber; playerData is the entry the loop read.
performAutoCashOutTo(sub, g, playerData) ==
    emitTo(sub,
           [g EXCEPT
              !.cashedOutPlayers = @ \cup {playerData.playerId},
              !.activePlayers =
                  IF MapHas(@, playerData.playerId)
                  THEN MapSet(@, playerData.playerId,
                              [playerData EXCEPT !.hasWon = TRUE])
                  ELSE @,
              !.stats.totalPayouts = @ + playerData.bet * g.multiplier],
           "player_auto_cashed_out",
           [playerId |-> playerData.playerId,
            multiplier |-> g.multiplier,
            winAmount |-> playerData.bet * g.multiplier,
            betAmount |-> playerData.bet])

RECURSIVE checkAutoCashOutsTo(_, _, _)
\* The for-of loop of checkAutoCashOuts over the live Map: the entries not
\* visited yet, in order, are looked up after each call of the subscriber.
checkAutoCashOutsTo(sub, g, visited) ==
    LET rest == SelectSeq(g.activePlayers,
                          LAMBDA e : e.playerId \notin visited)
    IN IF rest = <<>> THEN g
       ELSE LET playerData == Head(rest)
                playerId == playerData.playerId
                seen == visited \cup {playerId}
            IN IF /\ Truthy(playerData.autoCashOut)
                  /\ playerId \notin g.cashedOutPlayers
                  /\ g.multiplier >= playerData.autoCashOut[1]
               THEN checkAutoCashOutsTo(
                        sub, performAutoCashOutTo(sub, g, playerData), seen)
               ELSE checkAutoCashOutsTo(sub, g, seen)

\* updateGame with the subscriber listening.
updateGameTo(sub, g, r) ==
    IF g.state # FLYING THEN g
    ELSE
    LET now == Now(g)
        elapsed == now - g.startTime[1]
        g1 == [g EXCEPT !.multiplier = calculateMultiplier(elapsed)]
        g2 == IF \/ g1.lastPredictionBroadcast = 0
                 \/ now - g1.lastPredictionBroadcast >= predictionInterval
              THEN LET g1b == [g1 EXCEPT !.lastPredictionBroadcast = now]
                   IN emitTo(sub, g1b, "multiplier_update",
                             buildMultiplierPayload(g1b, elapsed, now))
              ELSE g1
    IN IF shouldCrash(g2, g2.multiplier, r) THEN crashGame(g2, Null)
       ELSE IF elapsed >= maxGameTime THEN crashGame(g2, Null)
       ELSE LET g3 == checkAutoCashOutsTo(sub, g2, {})
            IN emitTo(sub, g3, "game_state_changed",
                      buildMultiplierPayload(g3, elapsed, now))

---------------------------------------------------------------------------
(* The server's PlayerManager and its socket handlers.  pm is the manager:  *)
(* pm.players is the Map of the connected players by socket id.  A handler  *)
(* yields the engine, the manager and, of the messages it sends, those     *)
(* about the game and the bets (not the leaderboard or the history).        *)
(* Balances and amounts are whole money units.                              *)

startingBalance == 1000

addPlayer(pm, playerId) ==
    LET player == [id |-> playerId, balance |-> startingBalance,
                   currentBet |-> 0, isPlaying |-> FALSE,
                   autoCashOut |-> Null, totalBets |-> 0]
    IN [pm EXCEPT
          !.players = [id \in DOMAIN @ \cup {playerId} |->
                          IF id = playerId THEN player ELSE @[id]],
          !.stats.totalPlayersJoined = @ + 1]

\* PlayerManager.removePlayer
playerManager_removePlayer(pm, playerId) ==
    [pm EXCEPT !.players = [id \in DOMAIN @ \ {playerId} |-> @[id]]]

getPlayer(pm, playerId) ==
    IF playerId \in DOMAIN pm.players THEN <<pm.players[playerId]>> ELSE Null

\* amount is null (no number) or <<n>>; an integer is finite.
isValidBet(amount) ==
    /\ amount # Null
    /\ amount[1] >= 1
    /\ amount[1] <= 1000000000

send(name, payload) == [event |-> name, payload |-> payload]

getCurrentState(g) ==
    LET baseState == [state |-> g.state, gameId |-> g.gameId]
    IN IF g.state = FLYING
       THEN [state |-> g.state, gameId |-> g.gameId,
             multiplier |-> g.multiplier,
             time |-> IF g.startTime # Null THEN Now(g) - g.startTime[1]
                      ELSE 0]
       ELSE IF g.state = CRASHED
       THEN [state |-> g.state, gameId |-> g.gameId,
             finalMultiplier |-> g.multiplier]
       ELSE baseState

\* io.on('connection'): the socket's player is added.
connection(g, pm, socketId) ==
    [g |-> g,
     pm |-> addPlayer(pm, socketId),
     sent |-> <<send("game_state", getCurrentState(g))>>]

\* socket.on('disconnect')
disconnect(g, pm, socketId) ==
    [g |-> removePlayer(g, socketId),
     pm |-> playerManager_removePlayer(pm, socketId),
     sent |-> <<send("player_left", [playerId |-> socketId])>>]

\* socket.on('place_bet')
place_bet(g, pm, socketId, data) ==
    IF ~isValidBet(data.amount)
    THEN [g |-> g, pm |-> pm, called |-> FALSE,
          sent |-> <<send("error", [message |-> "Invalid bet amount"])>>]
    ELSE IF ~canPlaceBet(g)
    THEN [g |-> g, pm |-> pm, called |-> FALSE,
          sent |-> <<send("error",
                          [message |-> "Cannot place bet at this time"])>>]
    ELSE
    LET amount == data.amount[1]
        out == placeBet(g, socketId, amount, data.autoCashOut)
        player == getPlayer(pm, socketId)
        pm1 == IF player # Null /\ player[1].balance >= amount
               THEN [pm EXCEPT !.players[socketId] =
                        [@ EXCEPT !.balance = @ - amount,
                                  !.currentBet = amount,
                                  !.autoCashOut = data.autoCashOut,
                                  !.isPlaying = TRUE,
                                  !.totalBets = @ + amount]]
               ELSE pm
        after == getPlayer(pm1, socketId)
    IN IF out.ret
       THEN [g |-> out.g, pm |-> pm1, called |-> TRUE,
             sent |-> <<send("bet_placed",
                             [success |-> TRUE,
                              amount |-> amount,
                              betAmount |-> amount,
                              balance |-> IF after # Null
                                          THEN <<after[1].balance>> ELSE Null,
                              autoCashOut |-> IF after # Null
                                              THEN after[1].autoCashOut
                                              ELSE Null]),
                        send("player_bet",
                             [playerId |-> socketId, amount |-> amount])>>]
       ELSE [g |-> out.g, pm |-> pm, called |-> TRUE,
             sent |-> <<send("bet_placed",
                             [success |-> FALSE,
                              error |-> "Failed to place bet"])>>]

---------------------------------------------------------------------------
(* The state machine *)

This ==
    [state |-> state, multiplier |-> multiplier, startTime |-> startTime,
     gameId |-> gameId, history |-> history, activePlayers |-> activePlayers,
     cashedOutPlayers |-> cashedOutPlayers,
     gameLoopInterval |-> gameLoopInterval, stateTimeout |-> stateTimeout,
     stats |-> stats, lastPredictionBroadcast |-> lastPredictionBroadcast,
     timeouts |-> timeouts, intervals |-> intervals, clock |-> clock,
     emitted |-> <<>>]

ZeroTally == [manual |-> 0, auto |-> 0, flights |-> 0]
NoClosing == [cause |-> "none", tally |-> [p \in Players |-> ZeroTally]]

HasEvent(evs, name) == \E i \in 1..Len(evs) : evs[i].event = name
EventsOf(evs, name) == SelectSeq(evs, LAMBDA e : e.event = name)

AutoEvents(evs, p) ==
    Len(SelectSeq(evs, LAMBDA e : /\ e.event = "player_auto_cashed_out"
                                  /\ e.payload.playerId = p))

\* What the step yielding engine g by the call has shown of p's wager so far:
\* successful manual cash-outs, auto-cash-out events, entries to FLYING.
\* A successful placeBet makes a new wager.
Seen(p, g, call) ==
    LET t == IF call.op = "placeBet" /\ call.playerId = p /\ call.ret
             THEN ZeroTally ELSE tally[p]
    IN [manual |-> t.manual +
            (IF call.op = "cashOut" /\ call.playerId = p /\ call.ret.success
             THEN 1 ELSE 0),
        auto |-> t.auto + AutoEvents(g.emitted, p),
        flights |-> t.flights +
            (IF call.op = "startGame" /\ MapHas(g.activePlayers, p)
             THEN 1 ELSE 0)]

CommitEngine(g, call) ==
    /\ state' = g.state
    /\ multiplier' = g.multiplier
    /\ startTime' = g.startTime
    /\ gameId' = g.gameId
    /\ history' = g.history
    /\ activePlayers' = g.activePlayers
    /\ cashedOutPlayers' = g.cashedOutPlayers
    /\ gameLoopInterval' = g.gameLoopInterval
    /\ stateTimeout' = g.stateTimeout
    /\ stats' = g.stats
    /\ lastPredictionBroadcast' = g.lastPredictionBroadcast
    /\ timeouts' = g.timeouts
    /\ intervals' = g.intervals
    /\ clock' = g.clock
    /\ emitted' = g.emitted
    /\ tally' = [p \in Players |->
                    IF MapHas(g.activePlayers, p) THEN Seen(p, g, call)
                    ELSE ZeroTally]
    /\ closing' = IF HasEvent(g.emitted, "round_settled")
                  THEN [cause |-> call.op,
                        tally |-> [p \in Players |-> Seen(p, g, call)]]
                  ELSE IF g.state = CRASHED THEN closing
                  ELSE NoClosing

\* A step of the engine alone: the server's PlayerManager is as it was.
Commit(g, call) ==
    /\ CommitEngine(g, call)
    /\ UNCHANGED playerManager

Init ==
    /\ state = WAITING
    /\ multiplier = 100000
    /\ startTime = Null
    /\ gameId = 0
    /\ history = <<>>
    /\ activePlayers = <<>>
    /\ cashedOutPlayers = {}
    /\ gameLoopInterval = Null
    /\ stateTimeout = Null
    /\ stats = [totalGames |-> 0, totalBets |-> 0, totalPayouts |-> 0,
                averageMultiplier |-> <<0, 1>>]
    /\ lastPredictionBroadcast = 0
    /\ timeouts = {}
    /\ intervals = {}
    /\ clock = 0
    /\ idle = 0
    /\ emitted = <<>>
    /\ starts = 0
    /\ tally = [p \in Players |-> ZeroTally]
    /\ closing = NoClosing
    /\ playerManager = [players |-> [id \in {} |-> Null],
                        stats |-> [totalPlayersJoined |-> 0]]

\* gameEngine.start() as the server calls it: once, when it starts listening.
Start ==
    /\ starts = 0
    /\ \E r \in RandomDraws : Commit(start(This, r), [op |-> "start"])
    /\ starts' = starts + 1
    /\ UNCHANGED idle

\* start() called again on an engine that stop() has stopped.
Restart ==
    /\ starts > 0 /\ starts < MaxStarts
    /\ timeouts = {} /\ intervals = {}
    /\ \E r \in RandomDraws : Commit(start(This, r), [op |-> "start"])
    /\ starts' = starts + 1
    /\ UNCHANGED idle

Stop ==
    /\ Commit(stop(This), [op |-> "stop"])
    /\ UNCHANGED <<starts, idle>>

\* The timeout set by scheduleNextGame fires.
WaitTimerFires ==
    \E t \in timeouts :
        /\ t.cb = "startCountdown"
        /\ Commit(startCountdown([This EXCEPT !.timeouts = @ \ {t}]),
                  [op |-> "startCountdown"])
        /\ UNCHANGED <<starts, idle>>

\* The timeout set by startCountdown fires; the clock counts from here.
\* At most n rounds are explored.
CountdownFires(n) ==
    \E t \in timeouts :
        /\ t.cb = "startGame"
        /\ gameId < n
        /\ Commit(startGame([This EXCEPT !.timeouts = @ \ {t}, !.clock = 0]),
                  [op |-> "startGame"])
        /\ idle' = 0
        /\ UNCHANGED starts

\* The timeout set by crashGame fires.
CrashDelayFires ==
    \E t \in timeouts :
        /\ t.cb = "scheduleNextGame"
        /\ \E r \in RandomDraws :
               Commit(scheduleNextGame([This EXCEPT !.timeouts = @ \ {t}], r),
                      [op |-> "scheduleNextGame"])
        /\ UNCHANGED <<starts, idle>>

\* Time passes during a flight without the interval firing.
TimePasses ==
    /\ state = FLYING
    /\ idle < MaxIdle
    /\ clock < MaxClock
    /\ clock' = clock + 1
    /\ idle' = idle + 1
    /\ UNCHANGED <<state, multiplier, startTime, gameId, history, activePlayers,
                   cashedOutPlayers, gameLoopInterval, stateTimeout, stats,
                   lastPredictionBroadcast, timeouts, intervals, emitted,
                   starts, tally, closing, playerManager>>

\* A running interval fires, at least one quantum after the previous tick.
Tick ==
    /\ intervals # {}
    /\ idle >= 1
    /\ \E r \in RandomDraws :
           Commit(updateGame(This, r), [op |-> "updateGame", random |-> r])
    /\ idle' = 0
    /\ UNCHANGED starts

MinAmount == CHOOSE a \in Amounts : \A b \in Amounts : a <= b

\* Bets are explored up to the last explored round and up to a total
\* wagered of MaxWagered smallest stakes.
PlaceBet(n) ==
    \E p \in Players : \E a \in Stakes(p), t \in Thresholds :
        /\ gameId < n
        /\ stats.totalBets + a <= MaxWagered * MinAmount
        /\ LET out == placeBet(This, p, a, t)
           IN Commit(out.g, [op |-> "placeBet", playerId |-> p, amount |-> a,
                             autoCashOut |-> t, ret |-> out.ret])
        /\ UNCHANGED <<starts, idle>>

CashOut ==
    \E p \in Players :
        /\ LET out == cashOut(This, p)
           IN Commit(out.g, [op |-> "cashOut", playerId |-> p, ret |-> out.ret])
        /\ UNCHANGED <<starts, idle>>

RemovePlayer ==
    \E p \in Players :
        /\ Commit(removePlayer(This, p), [op |-> "removePlayer", playerId |-> p])
        /\ UNCHANGED <<starts, idle>>

ForceCrash ==
    \E reason \in Reasons :
        /\ LET out == forceCrash(This, reason)
           IN Commit(out.g, [op |-> "forceCrash", reason |-> reason,
                             ret |-> out.ret])
        /\ UNCHANGED <<starts, idle>>

\* The engine as the server drives it: start() once, then timers, ticks and
\* commands in any order, and stop() at shutdown.
Next ==
    \/ Start
    \/ Stop
    \/ WaitTimerFires
    \/ CountdownFires(MaxRounds)
    \/ CrashDelayFires
    \/ Tick
    \/ TimePasses
    \/ PlaceBet(MaxRounds)
    \/ CashOut
    \/ RemovePlayer
    \/ ForceCrash

Spec == Init /\ [][Next]_vars

\* The engine under a driver that calls start() again after stop();
\* one more round is explored, so that a restarted engine can fly again.
NextLifecycle ==
    \/ Start
    \/ Restart
    \/ Stop
    \/ WaitTimerFires
    \/ CountdownFires(MaxRounds + 1)
    \/ CrashDelayFires
    \/ Tick
    \/ TimePasses
    \/ PlaceBet(MaxRounds + 1)
    \/ CashOut
    \/ RemovePlayer
    \/ ForceCrash

SpecLifecycle == Init /\ [][NextLifecycle]_vars

\* The engine between start() and stop(): timers, ticks and commands only.
NextRunning ==
    \/ Start
    \/ WaitTimerFires
    \/ CountdownFires(MaxRounds)
    \/ CrashDelayFires
    \/ Tick
    \/ TimePasses
    \/ PlaceBet(MaxRounds)
    \/ CashOut
    \/ RemovePlayer
    \/ ForceCrash

SpecRunning == Init /\ [][NextRunning]_vars

\* Time passes during a flight, a stride at a time, up to the end of the
\* long flight.
FlightTimePasses ==
    /\ state = FLYING
    /\ idle < MaxIdle
    /\ clock + FlightStride <= MaxFlight
    /\ clock' = clock + FlightStride
    /\ idle' = idle + 1
    /\ UNCHANGED <<state, multiplier, startTime, gameId, history, activePlayers,
                   cashedOutPlayers, gameLoopInterval, stateTimeout, stats,
                   lastPredictionBroadcast, timeouts, intervals, emitted,
                   starts, tally, closing, playerManager>>

\* The running engine over a whole flight: timers, ticks, bets and the admin
\* override, with time running up to the maximum game time and beyond.
NextFlight ==
    \/ Start
    \/ WaitTimerFires
    \/ CountdownFires(MaxRounds)
    \/ CrashDelayFires
    \/ Tick
    \/ FlightTimePasses
    \/ PlaceBet(MaxRounds)
    \/ ForceCrash

SpecFlight == Init /\ [][NextFlight]_vars

\* The running engine left to its timers: no bets; the admin override may
\* come at any time.
NextLive ==
    \/ Start
    \/ WaitTimerFires
    \/ CountdownFires(MaxRounds)
    \/ CrashDelayFires
    \/ Tick
    \/ FlightTimePasses
    \/ ForceCrash

\* Time passes up to the first tick of a flight, as long as fewer than
\* MaxTicked entries of the history differ from 1.00.
HistoryTimePasses ==
    /\ state = FLYING
    /\ idle < 1
    /\ clock < 1
    /\ Cardinality({i \in 1..Len(history) : history[i] # minMultiplier})
           < MaxTicked
    /\ clock' = clock + 1
    /\ idle' = idle + 1
    /\ UNCHANGED <<state, multiplier, startTime, gameId, history, activePlayers,
                   cashedOutPlayers, gameLoopInterval, stateTimeout, stats,
                   lastPredictionBroadcast, timeouts, intervals, emitted,
                   starts, tally, closing, playerManager>>

\* The running engine over many short rounds without bets, more than the
\* history holds: a round is crashed by the admin override or at its first
\* tick.
NextHistory ==
    \/ Start
    \/ WaitTimerFires
    \/ CountdownFires(HistoryRounds)
    \/ CrashDelayFires
    \/ Tick
    \/ HistoryTimePasses
    \/ ForceCrash

SpecHistory == Init /\ [][NextHistory]_vars

\* start() called on an engine that is running: nothing in start() or
\* scheduleNextGame looks at the timers that are pending.
StartAgain ==
    /\ starts > 0 /\ starts < MaxStarts
    /\ \E r \in RandomDraws : Commit(start(This, r), [op |-> "start"])
    /\ starts' = starts + 1
    /\ UNCHANGED idle

\* The engine under a driver that may call start() at any time, without
\* bets: every timer that was set and not cleared fires.
NextStartAgain ==
    \/ Start
    \/ StartAgain
    \/ Stop
    \/ WaitTimerFires
    \/ CountdownFires(MaxRounds + 1)
    \/ CrashDelayFires
    \/ Tick
    \/ TimePasses
    \/ ForceCrash

SpecStartAgain == Init /\ [][NextStartAgain]_vars

\* A running interval fires while a subscriber is listening that calls a
\* command from inside an event.
TickToSubscriber ==
    /\ intervals # {}
    /\ idle >= 1
    /\ \E r \in RandomDraws, sub \in Subscribers :
           \E g \in {updateGameTo(sub, This, r)} :
               Commit(g, [op |-> "updateGame", random |-> r])
    /\ idle' = 0
    /\ UNCHANGED starts

\* The running engine with such a subscriber listening to the events of its
\* ticks: timers, ticks and bets.
NextSubscriber ==
    \/ Start
    \/ WaitTimerFires
    \/ CountdownFires(MaxRounds)
    \/ CrashDelayFires
    \/ TickToSubscriber
    \/ TimePasses
    \/ PlaceBet(MaxRounds)

SpecSubscriber == Init /\ [][NextSubscriber]_vars

\* A timeout with callback cb is set and has not fired.
Pending(cb) == \E t \in timeouts : t.cb = cb
\* The interval is running and a tick is due.
TickDue == intervals # {} /\ idle >= 1

\* Node runs every callback that is due and the clock advances: start() is
\* called, no timeout stays pending for ever (the countdown's as far as rounds
\* are explored), no tick stays due for ever, and time passes in a flight.
SpecLive ==
    /\ Init
    /\ [][NextLive]_vars
    /\ []<>(starts > 0)
    /\ []<>(~Pending("startCountdown"))
    /\ []<>(~(Pending("startGame") /\ gameId < MaxRounds))
    /\ []<>(~Pending("scheduleNextGame"))
    /\ []<>(~TickDue)
    /\ WF_vars(FlightTimePasses)

\* A step of a socket handler: the engine and the manager as the handler
\* leaves them; emitted holds the messages the handler has sent.
CommitServer(out, call) ==
    /\ CommitEngine([out.g EXCEPT !.emitted = out.sent], call)
    /\ playerManager' = out.pm
    /\ UNCHANGED <<starts, idle>>

\* A socket connects: the next socket id.
Connection ==
    /\ playerManager.stats.totalPlayersJoined < Len(SocketIds)
    /\ LET socketId == SocketIds[playerManager.stats.totalPlayersJoined + 1]
       IN CommitServer(connection(This, playerManager, socketId),
                       [op |-> "connection", playerId |-> socketId])

\* A connected socket disconnects.
Disconnect ==
    \E socketId \in DOMAIN playerManager.players :
        CommitServer(disconnect(This, playerManager, socketId),
                     [op |-> "removePlayer", playerId |-> socketId])

\* A connected socket sends place_bet.
PlaceBetMessage ==
    \E socketId \in DOMAIN playerManager.players : \E data \in BetData :
        /\ isValidBet(data.amount) =>
               stats.totalBets + data.amount[1] <= MaxStaked
        /\ LET out == place_bet(This, playerManager, socketId, data)
           IN CommitServer(out,
                  IF out.called
                  THEN [op |-> "placeBet", playerId |-> socketId,
                        amount |-> data.amount[1],
                        autoCashOut |-> data.autoCashOut,
                        ret |-> HasEvent(out.sent, "player_bet")]
                  ELSE [op |-> "place_bet", playerId |-> socketId])

\* The server up to the start of the first flight: the engine's timers, and
\* sockets that connect, bet and disconnect.
NextServer ==
    \/ Start
    \/ WaitTimerFires
    \/ CountdownFires(MaxRounds)
    \/ Connection
    \/ Disconnect
    \/ PlaceBetMessage

SpecServer == Init /\ [][NextServer]_vars

---------------------------------------------------------------------------
(* Observations used by the properties *)

\* The last step was a crash: it emitted round_settled.
JustCrashed == HasEvent(emitted, "round_settled")
\* The payload of that round_settled.
Settlement == EventsOf(emitted, "round_settled")[1].payload
LoserIds(st) == {st.losers[i].playerId : i \in 1..Len(st.losers)}
ParticipantIds(st) == {st.participants[i].playerId : i \in 1..Len(st.participants)}
TimesLost(st, p) == Len(SelectSeq(st.losers, LAMBDA l : l.playerId = p))
Paid(t) == t.manual + t.auto

\* The step is a tick of a flying round.
TickStep == state = FLYING /\ idle >= 1 /\ idle' = 0

\* A threshold the data model allows: present and at least 1.01.
ValidThreshold(t) == t # Null /\ t[1] >= 101000

CannotCashOut == [success |-> FALSE, error |-> "Cannot cash out at this time"]
NoActiveBet == [success |-> FALSE, error |-> "No active bet found"]
AlreadyCashedOut == [success |-> FALSE, error |-> "Already cashed out"]

---------------------------------------------------------------------------
(* Properties *)

\* C1: every wager that was held through a flight and is still held at the
\* crash has exactly one outcome when round_settled is emitted: one manual
\* cash-out, or one auto-cash-out, or one entry in losers; and no held wager
\* is ever paid twice.
C1_ExactlyOneOutcome ==
    /\ \A p \in Players : Paid(tally[p]) <= 1
    /\ JustCrashed =>
           \A p \in Players :
               IF closing.tally[p].flights >= 1
               THEN Paid(closing.tally[p]) + TimesLost(Settlement, p) = 1
               ELSE Paid(closing.tally[p]) + TimesLost(Settlement, p) = 0

\* C1 witness: a crash that settles a wager auto-cashed-out earlier in the
\* round and lists another wager among the losers.
C1_Witness ==
    /\ JustCrashed
    /\ \E p, q \in Players :
           /\ closing.tally[p].auto = 1
           /\ q \in LoserIds(Settlement)

\* C2: one placeBet gives rise to at most one payout, and no held wager
\* enters FLYING more than once (none is carried into a later round).
C2_SettledAtMostOnce ==
    \A p \in Players : Paid(tally[p]) <= 1 /\ tally[p].flights <= 1

\* Amounts and thresholds placeBet is tried with: not positive, positive;
\* absent, zero, below 1.01, 1.01, above.
TestAmounts == {0 - 5, 0, 10}
TestThresholds == {Null, <<0 - 100000>>, <<0>>, <<100000>>, <<101000>>, <<200000>>}

\* C3: in every reachable state placeBet returns success iff the state is
\* WAITING or STARTING, the amount is positive and the threshold, when
\* present, is at least 1.01; a rejection changes nothing.
C3_PlaceBetGating ==
    \A p \in Players, a \in TestAmounts, t \in TestThresholds :
        LET out == placeBet(This, p, a, t)
        IN /\ out.ret <=> /\ state \in {WAITING, STARTING}
                         /\ a > 0
                         /\ (t = Null \/ t[1] >= 101000)
           /\ ~out.ret => out.g = This

\* C4: in every reachable state cashOut(p) succeeds iff the state is FLYING
\* and p holds an unsettled wager; a success marks the wager settled and
\* returns the current multiplier and bet * multiplier; a failure gives the
\* reason of the first failing check: state, wager, settled.
C4_CashOutGating ==
    \A p \in Players :
        LET out == cashOut(This, p)
            unsettled == MapHas(activePlayers, p) /\ p \notin cashedOutPlayers
        IN /\ out.ret.success <=> (state = FLYING /\ unsettled)
           /\ out.ret.success =>
                  /\ p \in out.g.cashedOutPlayers
                  /\ out.ret.multiplier = multiplier
                  /\ out.ret.winAmount = MapGet(activePlayers, p).bet * multiplier
                  /\ out.g.stats.totalPayouts =
                         stats.totalPayouts + out.ret.winAmount
           /\ ~out.ret.success =>
                  /\ out.g = This
                  /\ out.ret = IF state # FLYING THEN CannotCashOut
                               ELSE IF ~MapHas(activePlayers, p) THEN NoActiveBet
                               ELSE AlreadyCashedOut

\* C4 witness: a flying round in which one player has been paid by a manual
\* cash-out above 1.00x and another can still cash out.
C4_Witness ==
    /\ state = FLYING
    /\ \E p, q \in Players :
           /\ tally[p].manual = 1
           /\ stats.totalPayouts > MapGet(activePlayers, p).bet * 100000
           /\ cashOut(This, p).ret = AlreadyCashedOut
           /\ cashOut(This, q).ret.success

\* C5 as claimed: once cashOut has succeeded for a player, cashOut fails for
\* that player with "Already cashed out", also after the round has crashed.
C5_AlwaysAlreadyCashedOut ==
    \A p \in Players :
        (tally[p].manual >= 1 \/ closing.tally[p].manual >= 1)
            => cashOut(This, p).ret = AlreadyCashedOut

\* C5 amended: once cashOut has succeeded for a player, cashOut fails for that
\* player with "Already cashed out" as long as the round is FLYING and the
\* wager is held, and with "Cannot cash out at this time" once it has crashed.
C5_AlreadyCashedOutWhileFlying ==
    \A p \in Players :
        /\ (tally[p].manual >= 1 /\ state = FLYING)
               => cashOut(This, p).ret = AlreadyCashedOut
        /\ closing.tally[p].manual >= 1
               => cashOut(This, p).ret = CannotCashOut

\* C5 witness: a flying round in which a player has cashed out.
C5_Witness ==
    state = FLYING /\ \E p \in Players : tally[p].manual = 1

\* C6: a cash-out and a crash are ordered.  A player paid before the crash is
\* a winner of round_settled and not a loser; a wager unpaid at the crash is
\* a loser; no loser was paid; and after the crash cashOut fails with the
\* cannot-cash-out reason and changes nothing.
C6_CashOutVersusCrash ==
    /\ JustCrashed =>
           \A p \in Players :
               /\ closing.tally[p].manual >= 1 =>
                      /\ p \notin LoserIds(Settlement)
                      /\ \E i \in 1..Len(Settlement.participants) :
                             /\ Settlement.participants[i].playerId = p
                             /\ Settlement.participants[i].hasWon
               /\ (closing.tally[p].flights >= 1 /\ Paid(closing.tally[p]) = 0)
                      => p \in LoserIds(Settlement)
               /\ p \in LoserIds(Settlement) => Paid(closing.tally[p]) = 0
    /\ state = CRASHED =>
           \A p \in Players :
               /\ cashOut(This, p).ret = CannotCashOut
               /\ cashOut(This, p).g = This

\* C6 witness: a forced crash right after which one player, paid by a manual
\* cash-out before it, is a winner and the other is a loser.
C6_Witness ==
    /\ JustCrashed
    /\ closing.cause = "forceCrash"
    /\ \E p, q \in Players :
           /\ closing.tally[p].manual = 1
           /\ q \in LoserIds(Settlement)

\* C7: at every crash the participants are the wagers held at the crash, one
\* record each and in the Map's order; the losers are the unsettled ones with
\* their bets; winners and losers partition the participants; and afterwards
\* the engine holds no wager and no settled marker.
C7_SettlementRecord ==
    [][HasEvent(emitted', "round_settled") =>
         LET st == Settlement'
         IN /\ Len(EventsOf(emitted', "round_settled")) = 1
            /\ Len(st.participants) = Len(activePlayers)
            /\ \A i \in 1..Len(activePlayers) :
                   /\ st.participants[i].playerId = activePlayers[i].playerId
                   /\ st.participants[i].betAmount = activePlayers[i].bet
                   /\ st.participants[i].hasWon
                          <=> activePlayers[i].playerId \in cashedOutPlayers
                   /\ st.participants[i].hasWon
                          <=> st.participants[i].playerId \notin LoserIds(st)
            /\ {st.losers[i] : i \in 1..Len(st.losers)} =
                   {[playerId |-> activePlayers[i].playerId,
                     betAmount |-> activePlayers[i].bet] :
                        i \in {j \in 1..Len(activePlayers) :
                                 activePlayers[j].playerId \notin cashedOutPlayers}}
            /\ Len(st.losers) = Cardinality(LoserIds(st))
            /\ activePlayers' = <<>>
            /\ cashedOutPlayers' = {}
            /\ activePlayers = <<>> => (st.participants = <<>> /\ st.losers = <<>>)
      ]_vars

\* C7 witness: a crash with two participants, one of them a loser.
C7_Witness ==
    /\ JustCrashed
    /\ Len(Settlement.participants) = 2
    /\ Len(Settlement.losers) = 1
    /\ activePlayers = <<>>

\* What C8 promises of a tick for an unsettled wager of p whose threshold the
\* tick's multiplier has reached.
AutoCashedOutByTick(p) ==
    LET wager == MapGet(activePlayers, p)
        evs == SelectSeq(emitted', LAMBDA e : /\ e.event = "player_auto_cashed_out"
                                              /\ e.payload.playerId = p)
    IN /\ Len(evs) = 1
       /\ evs[1].payload.winAmount = wager.bet * multiplier'
       /\ evs[1].payload.multiplier = multiplier'
       /\ evs[1].payload.betAmount = wager.bet
       /\ p \in cashedOutPlayers'

ThresholdReachedByTick(p) ==
    /\ TickStep
    /\ MapHas(activePlayers, p)
    /\ p \notin cashedOutPlayers
    /\ ValidThreshold(MapGet(activePlayers, p).autoCashOut)
    /\ multiplier' >= MapGet(activePlayers, p).autoCashOut[1]

\* C8 as claimed: at the first tick whose multiplier reaches the threshold of
\* an unsettled wager, one player_auto_cashed_out with bet * multiplier is
\* emitted and the wager becomes settled.
C8_AutoCashOutAtFirstTick ==
    [][\A p \in Players : ThresholdReachedByTick(p) => AutoCashedOutByTick(p)]_vars

\* C8 amended: the same at the first such tick that does not crash the round;
\* and a wager auto-cashed-out in a round is not among the losers of its
\* round_settled.
C8_AutoCashOutAtFirstSafeTick ==
    [][/\ \A p \in Players :
              (ThresholdReachedByTick(p) /\ state' = FLYING)
                  => AutoCashedOutByTick(p)
       /\ HasEvent(emitted', "round_settled") =>
              \A p \in Players :
                  closing'.tally[p].auto >= 1 => p \notin LoserIds(Settlement')
      ]_vars

\* C8 witness: a tick has just auto-cashed-out a wager and the round flies on.
C8_Witness ==
    /\ state = FLYING
    /\ \E p \in Players :
           /\ AutoEvents(emitted, p) = 1
           /\ tally[p].auto = 1
           /\ tally[p].manual = 0

ForceCrashOutcome(reason, head) ==
    LET out == forceCrash(This, reason)
        settled == EventsOf(out.g.emitted, "round_settled")
    IN IF state = FLYING
       THEN /\ out.ret = [success |-> TRUE, multiplier |-> multiplier]
            /\ out.g.state = CRASHED
            /\ out.g.multiplier = multiplier
            /\ Head(out.g.history) = head
            /\ Len(out.g.history) = Min(Len(history) + 1, historySize)
            /\ Len(settled) = 1
            /\ settled[1].payload.finalMultiplier = multiplier
            /\ ParticipantIds(settled[1].payload) = MapKeys(activePlayers)
            /\ LoserIds(settled[1].payload) =
                   MapKeys(activePlayers) \ cashedOutPlayers
            /\ ~forceCrash(out.g, reason).ret.success
       ELSE /\ out.ret = [success |-> FALSE,
                          error |-> "Game is not currently flying"]
            /\ out.g = This

\* C10 as claimed: in every reachable state forceCrash, called while FLYING,
\* succeeds, leaves the state CRASHED, returns the multiplier the engine held
\* at the call, enters that multiplier in the history, and emits one
\* round_settled with that multiplier, the held wagers as participants and the
\* unsettled ones as losers; a forceCrash right after it fails; and in any
\* other state forceCrash fails and changes nothing.
C10_ForceCrashExactHistory ==
    \A reason \in Reasons : ForceCrashOutcome(reason, multiplier)

\* C10 amended: the same, the history entry being the multiplier rounded to
\* two decimals.
C10_ForceCrash ==
    \A reason \in Reasons : ForceCrashOutcome(reason, toFixed2(multiplier))

\* C10 witness: a forced crash at a multiplier that two decimals do not hold,
\* with a winner and a loser.
C10_Witness ==
    /\ JustCrashed
    /\ closing.cause = "forceCrash"
    /\ state = CRASHED
    /\ Head(history) > 100000
    /\ Head(history) # multiplier
    /\ Len(Settlement.participants) = 2
    /\ Len(Settlement.losers) = 1

\* C11: the crash made by forceCrash(reason) emits a round_settled or a
\* crashed game_state_changed whose payload carries the given reason.
C11_ReasonInCrashEvents ==
    \A reason \in Reasons :
        state = FLYING =>
            LET evs == forceCrash(This, reason).g.emitted
            IN \E i \in 1..Len(evs) :
                   /\ evs[i].event \in {"round_settled", "game_state_changed"}
                   /\ "reason" \in DOMAIN evs[i].payload
                   /\ evs[i].payload.reason = reason

\* The timeout whose callback is cb fires in the step.
Fired(cb) == \E t \in timeouts : t.cb = cb /\ t \notin timeouts'

\* C12: between start() and stop() the state changes only from WAITING to
\* STARTING when the wait timer fires, from STARTING to FLYING when the
\* countdown timer fires, from FLYING to CRASHED by a tick or by forceCrash,
\* and from CRASHED to WAITING when the display delay fires; and placeBet,
\* cashOut and removePlayer leave the state as it is.
C12_StateCycle ==
    /\ [][state' # state =>
            \/ state = WAITING /\ state' = STARTING /\ Fired("startCountdown")
            \/ state = STARTING /\ state' = FLYING /\ Fired("startGame")
            \/ /\ state = FLYING /\ state' = CRASHED
               /\ HasEvent(emitted', "round_settled")
               /\ closing'.cause \in {"updateGame", "forceCrash"}
            \/ state = CRASHED /\ state' = WAITING /\ Fired("scheduleNextGame")
         ]_vars
    /\ [](\A p \in Players :
              /\ \A a \in Amounts, t \in Thresholds :
                     placeBet(This, p, a, t).g.state = state
              /\ cashOut(This, p).g.state = state
              /\ removePlayer(This, p).state = state)

\* C12 witness: the engine is back in WAITING after a whole round.
C12_Witness ==
    /\ state = WAITING
    /\ gameId >= 1
    /\ stats.totalGames >= 1
    /\ \E t \in timeouts : t.cb = "startCountdown"

\* C13: with every due timer firing and time advancing, the started engine
\* never gets stuck: every flight ends in CRASHED, also when no random draw
\* crashes it; CRASHED is followed by WAITING; and WAITING and STARTING are
\* followed by the next flight (as far as rounds are explored).
C13_NeverStuck ==
    /\ (state = FLYING) ~> (state = CRASHED)
    /\ (state = CRASHED) ~> (state = WAITING)
    /\ (state \in {WAITING, STARTING} /\ gameId < MaxRounds)
           ~> (state = FLYING)

\* C13 witness: a flight that no random draw crashed has ended at the maximum
\* game time.
C13_Witness ==
    /\ state = CRASHED
    /\ closing.cause = "updateGame"
    /\ clock * 500 >= maxGameTime

\* Time elapsed since the flight began, in ms.
Elapsed == Now(This) - startTime[1]

C15_MultiplierMonotone ==
    [][state = FLYING =>
          /\ multiplier' >= multiplier
          /\ TickStep =>
                 /\ multiplier' = calculateMultiplier(Elapsed)
                 /\ \A k \in 0..clock :
                        calculateMultiplier(k * 500) <= multiplier'
      ]_vars

\* C15 witness: a flight whose multiplier has grown over two ticks and has
\* not reached the cap.
C15_Witness ==
    /\ state = FLYING
    /\ idle = 0
    /\ Elapsed >= 1000
    /\ multiplier > calculateMultiplier(500)
    /\ multiplier < capMultiplier

InRange(m) == minMultiplier <= m /\ m <= capMultiplier

\* The multipliers an event's payload carries are in range.
PayloadInRange(pl) ==
    \A f \in {"multiplier", "displayMultiplier", "finalMultiplier"} :
        f \in DOMAIN pl => InRange(pl[f])

\* C16: in every reachable state the engine's multiplier is between 1.00 and
\* the cap, and so are the entries of the history, the multipliers in the
\* payloads of the events just emitted, the multiplier a cash-out would pay
\* at, and calculateMultiplier at every elapsed time from before the start
\* time to after the cap is reached.
C16_MultiplierInRange ==
    /\ InRange(multiplier)
    /\ \A i \in 1..Len(history) : InRange(history[i])
    /\ \A i \in 1..Len(emitted) : PayloadInRange(emitted[i].payload)
    /\ \A p \in Players :
           LET ret == cashOut(This, p).ret
           IN ret.success =>
                  /\ InRange(ret.multiplier)
                  /\ ret.winAmount >= ret.betAmount * minMultiplier
                  /\ ret.winAmount <= ret.betAmount * capMultiplier
    /\ \A k \in (0 - 2)..(Len(ExpTable) + 2) :
           InRange(calculateMultiplier(k * 500))

\* C16 witness: a flight in which the cap holds the multiplier down.
C16_Witness ==
    /\ state = FLYING
    /\ multiplier = capMultiplier
    /\ ExpRate(Elapsed) > capMultiplier
    /\ \E p \in Players : cashOut(This, p).ret.success

\* Elapsed times (ms) and multipliers shouldCrash is tried with, in rising
\* order: before the start, around 30 s, up to twice the maximum game time;
\* below 1.00, around 5.00, where the 8% limit is reached, the cap and above.
ElapsedSamples ==
    <<0 - 500, 0, 15000, 30000, 30500, 45000, 60000, 90000, 120000, 180000>>
MultSamples ==
    <<0, 100000, 499990, 500000, 500010, 1000000, 5000000, 5780000,
      25000000, 30000000>>

\* C17: for every elapsed time and multiplier tried, and for those of the
\* current state, the crash probability of a tick is at least 0 and at most
\* 8% (so at most 1), and it does not fall from one elapsed time to the next
\* or from one multiplier to the next; shouldCrash compares the draw with it.
C17_CrashChance ==
    /\ \A i \in 1..Len(ElapsedSamples) : \A k \in 1..Len(MultSamples) :
           LET c == crashChance(ElapsedSamples[i], MultSamples[k])
           IN /\ 0 <= c /\ c <= 80000000 /\ c <= 1000000000
              /\ i < Len(ElapsedSamples) =>
                     c <= crashChance(ElapsedSamples[i + 1], MultSamples[k])
              /\ k < Len(MultSamples) =>
                     c <= crashChance(ElapsedSamples[i], MultSamples[k + 1])
    /\ state = FLYING =>
           LET c == crashChance(Elapsed, multiplier)
           IN /\ 0 <= c /\ c <= 80000000
              /\ crashChance(Elapsed - 500, multiplier) <= c
              /\ c <= crashChance(Elapsed + 500, multiplier)
              /\ crashChance(Elapsed, multiplier - 1000) <= c
              /\ c <= crashChance(Elapsed, multiplier + 1000)
              /\ \A r \in RandomDraws :
                     shouldCrash(This, multiplier, r) <=> r * 100000 < c

\* C17 witness: a flight past 30 s and above 5.00x in which the sum of the
\* terms of the crash probability is above the 8% limit, which holds it down.
C17_Witness ==
    /\ state = FLYING
    /\ Elapsed > 30000
    /\ multiplier > 500000
    /\ crashChance(Elapsed, multiplier) = 80000000
    /\ crashChance_NoLimit(Elapsed, multiplier) > 80000000

\* The history after a crash with final multiplier entry put at its head:
\* the entry, then the entries held before, the oldest dropped when full.
Pushed(entry) ==
    LET h == <<entry>> \o history
    IN SubSeq(h, 1, Min(Len(h), historySize))

\* What C18 promises, the entry a crash makes of the final multiplier fm being
\* entryOf(fm): after N crashes the history holds min(N, historySize) entries;
\* a crash puts its entry at the head, keeps the others in order behind it
\* and drops the oldest when the history was full; no other step changes the
\* history.
HistoryKept(entryOf(_)) ==
    /\ Len(history') = Min(stats'.totalGames, historySize)
    /\ IF HasEvent(emitted', "round_settled")
       THEN /\ stats'.totalGames = stats.totalGames + 1
            /\ history' = Pushed(entryOf(Settlement'.finalMultiplier))
            /\ Settlement'.finalMultiplier = multiplier'
       ELSE /\ stats'.totalGames = stats.totalGames
            /\ history' = history

Same(m) == m

\* C18 as claimed: the entries of the history are exactly the final
\* multipliers of the most recent rounds, newest first, at most historySize.
C18_HistoryExactMultipliers ==
    [][HistoryKept(Same)]_vars

\* C18 amended: the entries are the final multipliers rounded to two decimals.
C18_HistoryRoundedMultipliers ==
    [][HistoryKept(toFixed2)]_vars

\* C18 witness: a crash without bets after more rounds than the history
\* holds, the full history holding entries that differ.
C18_Witness ==
    /\ JustCrashed
    /\ Settlement.participants = <<>>
    /\ stats.totalGames > historySize
    /\ Len(history) = historySize
    /\ history[1] # Settlement.finalMultiplier
    /\ \E i \in 2..Len(history) : history[i] # history[1]

\* C19: a step that enters FLYING raises the round id by exactly 1, and no
\* other step changes it, whatever the operation: timers, ticks, commands,
\* stop() and start().
C19_RoundIdCounts ==
    [][IF state # FLYING /\ state' = FLYING
       THEN gameId' = gameId + 1
       ELSE gameId' = gameId]_vars

\* C19 witness: the second round is flying, with the round id 2.
C19_Witness ==
    /\ state = FLYING
    /\ gameId = 2
    /\ stats.totalGames = 1

\* The snapshot startGame emits: state FLYING, multiplier 1.00, elapsed 0.
ZeroSnapshot(e) ==
    /\ e.event = "game_state_changed"
    /\ e.payload.state = FLYING
    /\ e.payload.multiplier = 100000
    /\ e.payload.displayMultiplier = 100000
    /\ e.payload.time = 0

\* C20: a step that enters FLYING leaves the multiplier at 1.00, the start
\* time at the time of the step and no player marked as cashed out; it emits
\* the snapshot with multiplier 1.00 at elapsed time 0 and nothing of a tick,
\* and the interval whose ticks follow is started by it.
C20_EntryToFlying ==
    [][(state # FLYING /\ state' = FLYING) =>
           /\ multiplier' = 100000
           /\ startTime' = <<1000 + clock' * 500>>
           /\ cashedOutPlayers' = {}
           /\ \E i \in 1..Len(emitted') : ZeroSnapshot(emitted'[i])
           /\ ~HasEvent(emitted', "multiplier_update")
           /\ ~HasEvent(emitted', "round_settled")
           /\ gameLoopInterval = Null
           /\ gameLoopInterval' # Null
           /\ idle' = 0]_vars

\* C20 witness: the second round has just started with a wager held, the
\* first having ended above 1.00.
C20_Witness ==
    /\ state = FLYING
    /\ gameId = 2
    /\ \E i \in 1..Len(emitted) : ZeroSnapshot(emitted[i])
    /\ history # <<>>
    /\ Head(history) > 100000
    /\ activePlayers # <<>>

\* The entries of the Map m other than player p's, in order.
Others(m, p) == SelectSeq(m, LAMBDA e : e.playerId # p)

\* The round_settled payload of the crash of engine g.
SettlementOf(g) == EventsOf(crashGame(g, Null).emitted, "round_settled")[1].payload

\* C21: in every state and for every player, with an unsettled wager, a
\* settled one or none, removePlayer yields an engine in which the player has
\* neither a wager nor a settled marker and which is otherwise the same:
\* state, multiplier, history, statistics, timers and the other players'
\* wagers and markers; a crash that follows lists the player in neither
\* participants nor losers.  The steps that take one player's wager away
\* without a crash show the same.
C21_RemovePlayer ==
    /\ [](\A p \in Players :
            LET g == removePlayer(This, p)
                st == SettlementOf(g)
            IN /\ ~MapHas(g.activePlayers, p)
               /\ p \notin g.cashedOutPlayers
               /\ g.activePlayers = Others(activePlayers, p)
               /\ g.cashedOutPlayers = cashedOutPlayers \ {p}
               /\ g = [This EXCEPT !.activePlayers = g.activePlayers,
                                   !.cashedOutPlayers = g.cashedOutPlayers]
               /\ g.emitted = <<>>
               /\ p \notin ParticipantIds(st)
               /\ p \notin LoserIds(st)
               /\ ParticipantIds(st) = MapKeys(activePlayers) \ {p})
    /\ [][\A p \in Players :
            (/\ MapHas(activePlayers, p)
             /\ ~MapHas(activePlayers', p)
             /\ ~HasEvent(emitted', "round_settled")) =>
                /\ p \notin cashedOutPlayers'
                /\ activePlayers' = Others(activePlayers, p)
                /\ cashedOutPlayers' = cashedOutPlayers \ {p}
                /\ UNCHANGED <<state, multiplier, history, stats, gameId,
                               startTime, timeouts, intervals>>]_vars

\* C21 witness: in a flight a player who had cashed out has been removed,
\* marker and all, while the other player still holds a wager.
C21_Witness ==
    /\ state = FLYING
    /\ stats.totalPayouts > 0
    /\ cashedOutPlayers = {}
    /\ Len(activePlayers) = 1
    /\ stats.totalBets = 30

NotFlying == [success |-> FALSE, error |-> "Game is not currently flying"]

\* C22: in every reachable state a command that is rejected returns its
\* failure value (false from placeBet, a record with success false and the
\* reason from cashOut and forceCrash) and yields the engine as it was: state,
\* multiplier, wagers, settled markers, history, statistics, timers, and no
\* event; a placeBet in FLYING is rejected and the state stays FLYING.
C22_RejectionsChangeNothing ==
    /\ \A p \in Players, a \in TestAmounts, t \in TestThresholds :
           LET out == placeBet(This, p, a, t)
           IN /\ out.ret \in BOOLEAN
              /\ ~out.ret => out.g = This
              /\ state = FLYING => ~out.ret /\ out.g.state = FLYING
              /\ (t # Null /\ t[1] > 0 /\ t[1] < 101000) => ~out.ret
    /\ \A p \in Players :
           LET out == cashOut(This, p)
           IN ~out.ret.success =>
                  /\ out.ret \in {CannotCashOut, NoActiveBet, AlreadyCashedOut}
                  /\ out.g = This
    /\ \A reason \in Reasons :
           LET out == forceCrash(This, reason)
           IN /\ out.ret.success <=> state = FLYING
              /\ ~out.ret.success => out.ret = NotFlying /\ out.g = This

\* C22 witness: a flight with a pending tick and statistics that count, in
\* which each command has a rejection: a bet, a second cash-out of the player
\* who has cashed out, and a cash-out of the player who holds no wager.
C22_Witness ==
    /\ state = FLYING
    /\ intervals # {}
    /\ stats.totalPayouts > 0
    /\ \E p, q \in Players :
           /\ cashOut(This, p).ret = AlreadyCashedOut
           /\ cashOut(This, q).ret = NoActiveBet
           /\ ~placeBet(This, q, 10, Null).ret

\* C23: in every reachable state, start() having been called once or more,
\* at most one state timer is pending and at most one interval is running.
C23_OneTimerEach ==
    /\ Cardinality(timeouts) <= 1
    /\ Cardinality(intervals) <= 1

\* Under the server's driver, which calls start() once (and again only on a
\* stopped engine), the same holds, and the pending timer and the running
\* interval are the ones the engine keeps the handles of.
C23_OneTimerEachStartedOnce ==
    /\ C23_OneTimerEach
    /\ \A t \in timeouts : stateTimeout = <<t.id>>
    /\ \A i \in intervals : gameLoopInterval = <<i>>

\* Two intervals run at once: each of two pending countdowns has started one.
C23_TwoIntervals == Cardinality(intervals) >= 2

\* The engine has been started and no timer is pending or running: under a
\* driver that starts a stopped engine only, stop() was the last call of the
\* two.
Stopped == starts > 0 /\ timeouts = {} /\ intervals = {}

\* C24: in every reachable state stop() leaves no timer pending and no
\* interval running, emits nothing and completes nothing (state WAITING, no
\* history entry, no round counted, wagers and markers kept as they are); and
\* from a stopped engine, until start() is called, every step leaves the state
\* WAITING without timers, emits nothing and changes neither the multiplier,
\* the history, the round id nor the rounds and payouts counted.
C24_StopHalts ==
    /\ [](LET g == stop(This)
          IN /\ g.timeouts = {} /\ g.intervals = {}
             /\ g.stateTimeout = Null /\ g.gameLoopInterval = Null
             /\ g.state = WAITING
             /\ g.emitted = <<>>
             /\ g.history = history
             /\ g.stats = stats
             /\ g.multiplier = multiplier
             /\ g.activePlayers = activePlayers
             /\ g.cashedOutPlayers = cashedOutPlayers)
    /\ [][(Stopped /\ starts' = starts) =>
              /\ Stopped'
              /\ state' = WAITING
              /\ emitted' = <<>>
              /\ UNCHANGED <<multiplier, history, gameId, startTime, clock>>
              /\ stats'.totalGames = stats.totalGames
              /\ stats'.totalPayouts = stats.totalPayouts]_vars
    /\ [][(starts > 0 /\ ~Stopped /\ Stopped') =>
              /\ state' = WAITING
              /\ emitted' = <<>>
              /\ UNCHANGED <<multiplier, history, stats, activePlayers,
                             cashedOutPlayers>>]_vars

\* C24 witness: the engine was stopped in a flight that had ticked above 1.00
\* with a wager held, and the round is in no history.
C24_Witness ==
    /\ Stopped
    /\ state = WAITING
    /\ startTime # Null
    /\ multiplier > 100000
    /\ history = <<>>
    /\ activePlayers # <<>>
    /\ stats.totalGames = 0

\* The positions in the events evs of the final snapshot, of the crashed
\* game_state_changed and of round_settled.
FinalSnapshotAt(evs) ==
    {i \in 1..Len(evs) : /\ evs[i].event = "multiplier_update"
                         /\ evs[i].payload.state = CRASHED}
CrashedChangeAt(evs) ==
    {i \in 1..Len(evs) : /\ evs[i].event = "game_state_changed"
                         /\ evs[i].payload.state = CRASHED}
SettledAt(evs) == {i \in 1..Len(evs) : evs[i].event = "round_settled"}

\* What a step that enters CRASHED does whatever the order of its events: the
\* interval is stopped, each of the three events is emitted once, the final
\* snapshot (which shows the state CRASHED) first of the three, the final
\* multiplier is at the head of the history, no wager is left and the display
\* delay is the one timer pending.
CrashOutcome ==
    /\ intervals' = {} /\ gameLoopInterval' = Null
    /\ Cardinality(FinalSnapshotAt(emitted')) = 1
    /\ Cardinality(CrashedChangeAt(emitted')) = 1
    /\ Cardinality(SettledAt(emitted')) = 1
    /\ \A i \in FinalSnapshotAt(emitted') :
           \A j \in CrashedChangeAt(emitted') \cup SettledAt(emitted') : i < j
    /\ \A i \in FinalSnapshotAt(emitted') :
           emitted'[i].payload.multiplier = toFixed4(multiplier')
    /\ Head(history') = toFixed2(multiplier')
    /\ activePlayers' = <<>>
    /\ timeouts' = {[id |-> stateTimeout'[1], cb |-> "scheduleNextGame"]}

\* C25 as claimed: on every step that enters CRASHED, round_settled is emitted
\* before the crashed game_state_changed.
C25_SettledBeforeCrashedChange ==
    [][(state # CRASHED /\ state' = CRASHED) =>
           /\ CrashOutcome
           /\ \A i \in SettledAt(emitted') :
                  \A j \in CrashedChangeAt(emitted') : i < j]_vars

\* C25 amended: on every step that enters CRASHED the order is: stop the
\* tick, emit the final multiplier_update, append to the history, emit the
\* crashed game_state_changed, emit round_settled as the last event, schedule
\* the display delay.
C25_CrashedChangeBeforeSettled ==
    [][(state # CRASHED /\ state' = CRASHED) =>
           /\ CrashOutcome
           /\ \A i \in CrashedChangeAt(emitted') :
                  \A j \in SettledAt(emitted') : i < j
           /\ SettledAt(emitted') = {Len(emitted')}]_vars

\* C25 witness: a tick has crashed the round, emitting its throttled
\* snapshot and then the three events of the crash, with a loser.
C25_Witness ==
    /\ JustCrashed
    /\ closing.cause = "updateGame"
    /\ Len(emitted) = 4
    /\ Settlement.losers # <<>>

\* The positions in the events evs of the events named name.
EventsAt(evs, name) == {i \in 1..Len(evs) : evs[i].event = name}

\* C26: a tick that crashes the round settles no wager by auto-cash-out: it
\* emits no player_auto_cashed_out, pays nothing, and the winners of its
\* settlement are the players marked before the tick; a tick that does not
\* crash emits its auto-cash-outs, if any, before its one game_state_changed,
\* which is its last event.
C26_CrashBeforeAutoCashOut ==
    [][TickStep =>
         IF state' = CRASHED
         THEN /\ EventsAt(emitted', "player_auto_cashed_out") = {}
              /\ stats'.totalPayouts = stats.totalPayouts
              /\ LET st == Settlement'
                 IN /\ ParticipantIds(st) \ LoserIds(st) =
                           cashedOutPlayers \cap MapKeys(activePlayers)
                    /\ LoserIds(st) = MapKeys(activePlayers) \ cashedOutPlayers
         ELSE /\ state' = FLYING
              /\ EventsAt(emitted', "game_state_changed") = {Len(emitted')}
              /\ \A i \in EventsAt(emitted', "player_auto_cashed_out") :
                     /\ i < Len(emitted')
                     /\ emitted'[i].payload.playerId \in
                            cashedOutPlayers' \ cashedOutPlayers
              /\ Cardinality(EventsAt(emitted', "player_auto_cashed_out")) =
                     Cardinality(cashedOutPlayers' \ cashedOutPlayers)]_vars

\* C26 witness: a tick has crashed the round at a multiplier that had reached
\* the threshold of a wager, and that wager is among the losers.
C26_Witness ==
    /\ JustCrashed
    /\ closing.cause = "updateGame"
    /\ \E i \in 1..Len(Settlement.participants) :
           LET rec == Settlement.participants[i]
           IN /\ ~rec.hasWon
              /\ rec.autoCashOut # Null
              /\ rec.autoCashOut[1] <= multiplier

\* The game_state_changed payloads among the events evs.
StateChanges(evs) ==
    {evs[i].payload : i \in EventsAt(evs, "game_state_changed")}

\* The step is stop() changing the state: to WAITING, no timer left, no event.
StopStep ==
    /\ state' = WAITING
    /\ timeouts' = {} /\ intervals' = {}
    /\ emitted' = <<>>

\* The step lets time pass: it emits nothing, the events stay as they were.
TimeStep == idle' = idle + 1

Updates(evs, st) ==
    {evs[i].payload : i \in {j \in EventsAt(evs, "multiplier_update") :
                                 evs[j].payload.state = st}}

\* The step is the first tick of its flight: no tick since startGame.
FirstTick == TickStep /\ clock = idle

\* C28: the first tick of a flight emits a multiplier_update; a tick emits at
\* most one, and emits it when and only when predictionInterval has passed
\* since the previous one of the flight, whose timestamp the engine keeps;
\* steps other than ticks emit none; and every step that enters CRASHED emits
\* exactly one more, the final snapshot, whatever the time since the last.
C28_UpdateThrottle ==
    [][IF TimeStep THEN UNCHANGED <<lastPredictionBroadcast, emitted>>
       ELSE
       /\ FirstTick => Cardinality(Updates(emitted', FLYING)) = 1
       /\ TickStep =>
              /\ Cardinality(EventsAt(emitted', "multiplier_update")) <=
                     (IF state' = CRASHED THEN 2 ELSE 1)
              /\ \A pl \in Updates(emitted', FLYING) :
                     /\ pl.timestamp = 1000 + 500 * clock'
                     /\ \/ lastPredictionBroadcast = 0
                        \/ pl.timestamp - lastPredictionBroadcast
                               >= predictionInterval
                     /\ lastPredictionBroadcast' = pl.timestamp
              /\ Updates(emitted', FLYING) = {} =>
                     /\ lastPredictionBroadcast > 0
                     /\ 1000 + 500 * clock' - lastPredictionBroadcast
                            < predictionInterval
                     /\ lastPredictionBroadcast' = lastPredictionBroadcast
       /\ ~TickStep =>
              /\ Updates(emitted', FLYING) = {}
              /\ lastPredictionBroadcast' =
                     (IF state # FLYING /\ state' = FLYING
                      THEN 0 ELSE lastPredictionBroadcast)
       /\ Cardinality(EventsAt(emitted', "multiplier_update")) =
              Cardinality(Updates(emitted', FLYING))
                  + (IF state # CRASHED /\ state' = CRASHED THEN 1 ELSE 0)
       /\ (state # CRASHED /\ state' = CRASHED) =>
              \E pl \in Updates(emitted', CRASHED) :
                  pl.timestamp = 1000 + 500 * clock']_vars

\* C28 witness: a tick of a flight has emitted no multiplier_update, less
\* than the interval after the one the first tick emitted.
C28_Witness ==
    /\ state = FLYING
    /\ idle = 0
    /\ clock >= 2
    /\ lastPredictionBroadcast > 0
    /\ ~HasEvent(emitted, "multiplier_update")
    /\ HasEvent(emitted, "game_state_changed")

\* C29: after every crash stats.averageMultiplier, the quotient of the pair
\* kept, is the mean of the history, which holds the round just crashed.
C29_AverageOfHistory ==
    state = CRASHED =>
        /\ history # <<>>
        /\ stats.averageMultiplier[1] * Len(history) =
               SumSeq(history) * stats.averageMultiplier[2]

\* The sum of the winAmounts of the player_auto_cashed_out events of evs.
RECURSIVE AutoPaid(_)
AutoPaid(evs) ==
    IF evs = <<>> THEN 0
    ELSE (IF Head(evs).event = "player_auto_cashed_out"
          THEN Head(evs).payload.winAmount ELSE 0) + AutoPaid(Tail(evs))

\* The players a step marks as cashed out without an event: the step is a
\* successful manual cashOut of such a player.
ManuallyPaid ==
    IF emitted' = <<>> /\ state' = FLYING
    THEN cashedOutPlayers' \ cashedOutPlayers
    ELSE {}

\* C30: totalPayouts is 0 to begin with, and every step adds to it exactly
\* the winAmounts of the player_auto_cashed_out events it emits and the
\* winAmount a successful manual cashOut returns: nothing on any other step;
\* and in every state, of the commands, stop() and start(), only a successful
\* cashOut yields another totalPayouts, greater by the winAmount it returns.
C30_TotalPayouts ==
    /\ [](gameId = 0 => stats.totalPayouts = 0)
    /\ [][IF TimeStep THEN UNCHANGED stats
          ELSE /\ Cardinality(ManuallyPaid) <= 1
               /\ \/ /\ ManuallyPaid = {}
                     /\ stats'.totalPayouts =
                            stats.totalPayouts + AutoPaid(emitted')
                  \/ \E p \in ManuallyPaid :
                         /\ cashOut(This, p).ret.success
                         /\ stats'.totalPayouts =
                                stats.totalPayouts
                                    + cashOut(This, p).ret.winAmount]_vars
    /\ [](/\ \A p \in Players :
                 LET out == cashOut(This, p)
                 IN out.g.stats.totalPayouts =
                        stats.totalPayouts +
                            (IF out.ret.success THEN out.ret.winAmount ELSE 0)
          /\ \A p \in Players, a \in TestAmounts, t \in TestThresholds :
                 placeBet(This, p, a, t).g.stats.totalPayouts
                     = stats.totalPayouts
          /\ \A p \in Players :
                 removePlayer(This, p).stats.totalPayouts = stats.totalPayouts
          /\ \A reason \in Reasons :
                 forceCrash(This, reason).g.stats.totalPayouts
                     = stats.totalPayouts
          /\ stop(This).stats.totalPayouts = stats.totalPayouts
          /\ \A r \in RandomDraws :
                 start(This, r).stats.totalPayouts = stats.totalPayouts)

\* C30 witness: in a flight one player has been paid by a manual cash-out
\* and the other by an auto-cash-out, at different multipliers, and
\* totalPayouts is the sum of the two.
C30_Witness ==
    /\ state = FLYING
    /\ \E p, q \in Players :
           /\ tally[p].manual = 1 /\ tally[p].auto = 0
           /\ tally[q].auto = 1 /\ tally[q].manual = 0
           /\ \E m \in {100000, 110517} :
                  stats.totalPayouts =
                      MapGet(activePlayers, p).bet * m
                          + MapGet(activePlayers, q).bet * 122140

\* The sum of the amounts of the wagers of the Map m.
RECURSIVE SumBets(_)
SumBets(m) == IF m = <<>> THEN 0 ELSE Head(m).bet + SumBets(Tail(m))

\* C31: a player holds at most one wager; a successful placeBet leaves the
\* player with the wager of that call, amount and threshold, unsettled, in
\* place of the one held before; and totalBets moves with the wagers held:
\* a step that changes it changes it by as much as the sum of the amounts of
\* the wagers held changes, a replaced wager being counted no longer.
C31_OneWagerPerPlayer ==
    /\ [](/\ \A i, j \in 1..Len(activePlayers) :
                 activePlayers[i].playerId = activePlayers[j].playerId => i = j
          /\ \A p \in Players, a \in TestAmounts, t \in TestThresholds :
                 LET out == placeBet(This, p, a, t)
                 IN out.ret =>
                        /\ MapGet(out.g.activePlayers, p) =
                               [playerId |-> p, bet |-> a, autoCashOut |-> t,
                                hasWon |-> FALSE]
                        /\ Others(out.g.activePlayers, p) =
                               Others(activePlayers, p))
    /\ [][stats'.totalBets # stats.totalBets =>
              stats'.totalBets - stats.totalBets =
                  SumBets(activePlayers') - SumBets(activePlayers)]_vars

\* The part of C31 that holds: one wager per player, that of the latest
\* successful placeBet, and totalBets raised by the amount of every
\* successful placeBet, a replacing one included.
C31_TotalBetsCountsEveryPlaceBet ==
    /\ [](\A i, j \in 1..Len(activePlayers) :
              activePlayers[i].playerId = activePlayers[j].playerId => i = j)
    /\ [][stats'.totalBets # stats.totalBets =>
              \E p \in Players :
                  /\ MapHas(activePlayers', p)
                  /\ Others(activePlayers', p) = Others(activePlayers, p)
                  /\ stats'.totalBets - stats.totalBets =
                         MapGet(activePlayers', p).bet]_vars

\* C32: every step that ends a round (enters CRASHED) emits exactly one
\* round_settled, adds exactly one entry to the history and counts exactly one
\* round, and no other step does any of these, also when the tick runs with
\* a subscriber that calls forceCrash, cashOut or removePlayer from inside one
\* of its events.
C32_OneSettlementPerRound ==
    [][IF TimeStep THEN UNCHANGED <<history, stats>>
       ELSE IF state # CRASHED /\ state' = CRASHED
       THEN /\ Cardinality(EventsAt(emitted', "round_settled")) = 1
            /\ Len(history') = Len(history) + 1
            /\ stats'.totalGames = stats.totalGames + 1
       ELSE /\ EventsAt(emitted', "round_settled") = {}
            /\ history' = history
            /\ stats'.totalGames = stats.totalGames]_vars

\* C33: on an engine that is never stopped, totalGames is the round id in
\* WAITING, STARTING and CRASHED and one less than the round id in FLYING.
C33_RoundsCounted ==
    stats.totalGames = IF state = FLYING THEN gameId - 1 ELSE gameId

\* C33 witness: the third round is flying after two rounds that crashed.
C33_Witness ==
    /\ state = FLYING
    /\ gameId = 3
    /\ stats.totalGames = 2
    /\ Len(history) = 2

\* C34: in every reachable state the players in cashedOutPlayers hold a
\* wager; every step that enters CRASHED leaves the set empty, no step that
\* ends outside FLYING adds to it, and so it is empty in WAITING, STARTING and
\* CRASHED whenever every round begun has ended by a crash.
C34_SettledMarkers ==
    /\ [](cashedOutPlayers \subseteq MapKeys(activePlayers))
    /\ []((state # FLYING /\ stats.totalGames = gameId) =>
              cashedOutPlayers = {})
    /\ [][/\ (state # CRASHED /\ state' = CRASHED) => cashedOutPlayers' = {}
          /\ state' # FLYING => cashedOutPlayers' \subseteq cashedOutPlayers
      ]_vars

\* C34 witness: the round has just crashed with a winner, who had been marked
\* as cashed out, and no marker is left.
C34_Witness ==
    /\ JustCrashed
    /\ \E i \in 1..Len(Settlement.participants) :
           Settlement.participants[i].hasWon
    /\ cashedOutPlayers = {}

\* C35: an interval is running exactly in the states that are FLYING, one
\* interval, the one the engine holds the handle of; a step that enters FLYING
\* starts it and a step that enters CRASHED stops it; and in a state that is
\* not FLYING updateGame yields the engine as it is, without an event.
C35_TickWhileFlying ==
    /\ [](/\ intervals # {} <=> state = FLYING
          /\ \A i \in intervals : gameLoopInterval = <<i>>
          /\ state # FLYING =>
                 \A r \in RandomDraws :
                     /\ updateGame(This, r) = This
                     /\ updateGame(This, r).emitted = <<>>)
    /\ [][/\ (state # FLYING /\ state' = FLYING) =>
                 /\ intervals = {}
                 /\ Cardinality(intervals') = 1
          /\ (state # CRASHED /\ state' = CRASHED) =>
                 /\ intervals # {}
                 /\ intervals' = {}
                 /\ gameLoopInterval' = Null]_vars

\* C35 witness: the round has just crashed after a tick or more; no interval
\* is running and updateGame would change nothing.
C35_Witness ==
    /\ JustCrashed
    /\ multiplier > 100000
    /\ intervals = {}
    /\ \A r \in RandomDraws : updateGame(This, r) = This

\* C36: every emitted payload that carries a multiplier and an elapsed time
\* lies on the growth curve: its multiplier is calculateMultiplier of its
\* time, to the four decimals the payload keeps; the final multiplier_update
\* of a crash, by a tick or by forceCrash, included.
C36_PayloadsOnGrowthCurve ==
    \A i \in 1..Len(emitted) :
        LET payload == emitted[i].payload
        IN {"multiplier", "time"} \subseteq DOMAIN payload =>
               payload.multiplier = toFixed4(calculateMultiplier(payload.time))

\* C37: only a tick emits player_auto_cashed_out, and each such event is for
\* a wager held before the tick, with a threshold: its betAmount is the
\* wager's amount, its multiplier is the multiplier the tick has computed for
\* its elapsed time, its winAmount is betAmount x that multiplier, the
\* multiplier is at least the wager's threshold, and so the winAmount is at
\* least betAmount x threshold.
C37_AutoCashOutPaysThreshold ==
    [][IF TimeStep THEN TRUE
       ELSE \A i \in EventsAt(emitted', "player_auto_cashed_out") :
            LET payload == emitted'[i].payload
            IN /\ TickStep
               /\ MapHas(activePlayers, payload.playerId)
               /\ LET playerData == MapGet(activePlayers, payload.playerId)
                  IN /\ payload.betAmount = playerData.bet
                     /\ payload.multiplier = multiplier'
                     /\ multiplier' =
                            calculateMultiplier(Now(This) - startTime[1])
                     /\ payload.winAmount =
                            payload.betAmount * payload.multiplier
                     /\ playerData.autoCashOut # Null
                     /\ payload.multiplier >= playerData.autoCashOut[1]
                     /\ payload.winAmount >=
                            payload.betAmount * playerData.autoCashOut[1]]_vars

\* C37 witness: a tick has just settled a wager with a threshold of 1.20 at a
\* multiplier above it.
C37_Witness ==
    /\ state = FLYING
    /\ idle = 0
    /\ \E i \in EventsAt(emitted, "player_auto_cashed_out") :
           /\ emitted[i].payload.multiplier > 120000
           /\ emitted[i].payload.playerId \in cashedOutPlayers
           /\ MapGet(activePlayers, emitted[i].payload.playerId).autoCashOut
                  = <<120000>>

\* The wager the engine holds for player p: its amount, or 0 if none.
WagerOf(p) ==
    IF MapHas(activePlayers, p) THEN MapGet(activePlayers, p).bet ELSE 0

\* C38: in the server up to the first flight, where the place_bet handler
\* alone changes a balance: every wager the engine holds is of an amount that
\* passes isValidBet and is held for a connected player; a connected player's
\* balance is the starting balance less the wager the engine holds for that
\* player, and the player's currentBet is that wager; and a place_bet the
\* engine accepts is for an amount within the balance and debits the balance
\* by exactly that amount.
C38_WagersPaidFor ==
    /\ [](\A i \in 1..Len(activePlayers) :
              /\ isValidBet(<<activePlayers[i].bet>>)
              /\ activePlayers[i].playerId \in DOMAIN playerManager.players)
    /\ [](\A p \in DOMAIN playerManager.players :
              /\ playerManager.players[p].balance >= 0
              /\ playerManager.players[p].balance
                     = startingBalance - WagerOf(p)
              /\ playerManager.players[p].currentBet = WagerOf(p))
    /\ [][\A i \in EventsAt(emitted', "player_bet") :
              LET p == emitted'[i].payload.playerId
                  amount == emitted'[i].payload.amount
              IN /\ p \in DOMAIN playerManager.players
                 /\ amount <= playerManager.players[p].balance
                 /\ playerManager'.players[p].balance
                        = playerManager.players[p].balance - amount]_vars

====
